---- MODULE Spec2Model ----
(***************************************************************************)
(* Wave planner core: TokenEstimator (src/lib/estimator.ts), WaveOrganizer *)
(* (src/lib/organizer.ts) and RiskPredictor (src/unnamed/part_000).        *)
(*                                                                         *)
(* Numbers.  The code computes in IEEE-754 binary64.  Token counts are     *)
(* integers and the default multipliers are tenths, so every product the   *)
(* estimator rounds is a rational whose distance from a half-integer is    *)
(* either 0 or at least 1/10; the estimator is therefore modelled in exact *)
(* integer arithmetic with Math.round as round-half-up (RoundDiv).         *)
(* Similarities are kept as pairs <<numerator, denominator>>.  The risk    *)
(* score divides by 240 before it multiplies by 100, neither of which is   *)
(* exact, so that one computation is modelled in binary64 itself.          *)
(*                                                                         *)
(* Text.  Titles, descriptions and file paths are strings; keyword and     *)
(* pattern matching is carried out on their characters.                    *)
(***************************************************************************)
EXTENDS Integers, Sequences, FiniteSets, TLC

VARIABLES
    issues,          \* the Issue[] argument of the call
    contexts,        \* the Map<issueId, CodebaseContext> argument
    config,          \* WaveOrganizer.config
    pc,              \* position inside the running entry point
    overlapMatrix,   \* organize: const overlapMatrix
    groups,          \* organize: const groups
    orderedGroups,   \* organize: const orderedGroups
    waves,           \* organize: const waves / the returned Wave[]
    est,             \* a call of TokenEstimator.estimate and its result
    waveEst,         \* a call of TokenEstimator.estimateWave and its result
    risks,           \* analyze: const risks
    riskIdCounter,   \* analyze: let riskIdCounter
    analysed,        \* analyze: how many issues the for-of loop has taken
    analysis,        \* the RiskAnalysisResult that analyze returned
    scoreCall,       \* calls of RiskPredictor.calculateRiskScore on a growing list
    earlier          \* an earlier call on the same instances and what it returned

vars == <<issues, contexts, config, pc, overlapMatrix, groups, orderedGroups,
          waves, est, waveEst, risks, riskIdCounter, analysed, analysis,
          scoreCall, earlier>>

predictorVars == <<risks, riskIdCounter, analysed, analysis, scoreCall>>

-----------------------------------------------------------------------------
(* Bounds of the model *)

MaxIssues == 3

\* calculateRiskScore is called on MaxBase or fewer critical/high risks
\* followed by MaxAdded or fewer risks of any kind.
MaxBase == 11
MaxAdded == 2

-----------------------------------------------------------------------------
(* Generic helpers *)

None == "none"

Range(s) == {s[i] : i \in DOMAIN s}

RECURSIVE SumSeq(_)
SumSeq(s) ==
    IF Len(s) = 0 THEN 0
    ELSE IF Len(s) = 1 THEN s[1]
    ELSE LET h == Len(s) \div 2
         IN SumSeq(SubSeq(s, 1, h)) + SumSeq(SubSeq(s, h + 1, Len(s)))

RECURSIVE FlattenSeq(_)
FlattenSeq(ss) == IF ss = <<>> THEN <<>> ELSE Head(ss) \o FlattenSeq(Tail(ss))

\* Math.round(n / d) for d > 0: the nearest integer, halves towards +infinity.
RoundDiv(n, d) == (2 * n + d) \div (2 * d)

\* Rationals p/q as <<p, q>> with q > 0.
RatGE(x, y) == x[1] * y[2] >= y[1] * x[2]
RatEq(x, y) == x[1] * y[2] = y[1] * x[2]
RatZero == <<0, 1>>
RatOne == <<1, 1>>

-----------------------------------------------------------------------------
(* Array.prototype.sort as V8 runs it on arrays shorter than 64 elements:  *)
(* one run is counted (and reversed when strictly descending), the rest is *)
(* inserted by binary insertion.  cmp[i][j] is the comparator's sign on    *)
(* the elements at the original positions i and j; the result is the       *)
(* sequence of original positions in sorted order.                         *)

RECURSIVE CountRun(_, _, _, _)
CountRun(perm, cmp, isDescending, idx) ==
    IF idx > Len(perm) THEN idx - 1
    ELSE LET order == cmp[perm[idx]][perm[idx - 1]]
         IN IF (isDescending /\ order >= 0) \/ (~isDescending /\ order < 0)
            THEN idx - 1
            ELSE CountRun(perm, cmp, isDescending, idx + 1)

ReverseRange(perm, n) ==
    [i \in DOMAIN perm |-> IF i <= n THEN perm[n + 1 - i] ELSE perm[i]]

RECURSIVE BinarySearch(_, _, _, _, _)
BinarySearch(perm, cmp, pivot, left, right) ==
    IF left >= right THEN left
    ELSE LET mid == left + ((right - left) \div 2)
         IN IF cmp[pivot][perm[mid]] < 0
            THEN BinarySearch(perm, cmp, pivot, left, mid)
            ELSE BinarySearch(perm, cmp, pivot, mid + 1, right)

RECURSIVE BinaryInsertionSort(_, _, _)
BinaryInsertionSort(perm, cmp, start) ==
    IF start > Len(perm) THEN perm
    ELSE LET pivot == perm[start]
             left == BinarySearch(perm, cmp, pivot, 1, start)
             moved == [p \in DOMAIN perm |->
                          IF p < left \/ p > start THEN perm[p]
                          ELSE IF p = left THEN pivot
                          ELSE perm[p - 1]]
         IN BinaryInsertionSort(moved, cmp, start + 1)

SortPositions(n, cmp) ==
    LET ident == [i \in 1..n |-> i]
    IN IF n < 2 THEN ident
       ELSE LET isDescending == cmp[2][1] < 0
                runLength == CountRun(ident, cmp, isDescending, 3)
                run == IF isDescending THEN ReverseRange(ident, runLength)
                       ELSE ident
            IN BinaryInsertionSort(run, cmp, runLength + 1)

ArraySort(s, cmp) ==
    LET perm == SortPositions(Len(s), cmp)
    IN [k \in 1..Len(s) |-> s[perm[k]]]

-----------------------------------------------------------------------------
(* Data model (src/adapters/linear.ts 760-822, src/lib/estimator.ts 14-45) *)

Priorities == {"P0-Critical", "P1-High", "P2-Medium", "P3-Low"}
Complexities == {"low", "medium", "high"}

\* issue.parent is kept as the parent's id; NoParent is an absent parent.
NoParent == 0

\* issue.estimate is optional; NoEstimate is an absent estimate.
NoEstimate == -1

\* contexts.get(id) of an id without entry
NoContext == [absent |-> TRUE]

FileInfo(path, lines) == [path |-> path, lines |-> lines]

-----------------------------------------------------------------------------
(* TokenEstimator with DEFAULT_CONFIG; multipliers are kept in tenths *)

BASE_OVERHEAD == 5000
TOKENS_PER_LINE == 100
contextExpansion10 == 15
testOverhead10 == 6
reviewOverhead10 == 3
documentation10 == 1
reviewCycles == 2

complexity10(c) ==
    CASE c = "low" -> 10
      [] c = "medium" -> 15
      [] c = "high" -> 25

\* this.config.priority[issue.priority] || 1.0
priority10(p) ==
    CASE p = "P0-Critical" -> 15
      [] p = "P1-High" -> 12
      [] p = "P2-Medium" -> 10
      [] p = "P3-Low" -> 8
      [] OTHER -> 10

createEmptyContext ==
    [filesLikelyTouched |-> <<>>, relatedFiles |-> <<>>,
     totalLines |-> 50, avgComplexity |-> "medium"]

estimateContextTokens(context) ==
    LET directTokens ==
            SumSeq([i \in DOMAIN context.filesLikelyTouched |->
                       context.filesLikelyTouched[i].lines * TOKENS_PER_LINE])
        relatedTokens ==
            SumSeq([i \in DOMAIN context.relatedFiles |->
                       context.relatedFiles[i].lines * TOKENS_PER_LINE])
    IN directTokens + RoundDiv(relatedTokens * contextExpansion10, 10)

\* estimateImplementationTokens without the priority multiplier
estimateImplementationTokens_NoPriority(issue, context) ==
    LET baseTokens == context.totalLines * 2 * TOKENS_PER_LINE
    IN RoundDiv(baseTokens * complexity10(context.avgComplexity), 10)

estimateImplementationTokens(issue, context) ==
    LET baseTokens == context.totalLines * 2 * TOKENS_PER_LINE
    IN RoundDiv(baseTokens * complexity10(context.avgComplexity)
                    * priority10(issue.priority), 100)

calculateConfidence(issue, context) ==
    LET files == (IF Len(context.filesLikelyTouched) >= 3 THEN 2
                  ELSE IF Len(context.filesLikelyTouched) >= 1 THEN 1 ELSE 0)
        \* issue.description && issue.description.length > ...
        descr == (IF Len(issue.description) > 200 THEN 2
                  ELSE IF Len(issue.description) > 50 THEN 1 ELSE 0)
        labelled == (IF Len(issue.labels) >= 2 THEN 1 ELSE 0)
        \* if (issue.estimate): undefined and 0 are both falsy
        estimated == (IF issue.estimate # NoEstimate /\ issue.estimate # 0
                      THEN 1 ELSE 0)
        score == files + descr + labelled + estimated
    IN IF score >= 5 THEN "high" ELSE IF score >= 3 THEN "medium" ELSE "low"

\* estimate with the total taken over the four written-code components only.
estimate_NoContextInTotal(issue, context) ==
    LET contextTokens == estimateContextTokens(context)
        implTokens == estimateImplementationTokens(issue, context)
        testTokens == RoundDiv(implTokens * testOverhead10, 10)
        reviewTokens == RoundDiv((implTokens + testTokens) * reviewOverhead10
                                     * reviewCycles, 10)
        docTokens == RoundDiv(implTokens * documentation10, 10)
    IN [total |-> BASE_OVERHEAD + implTokens + testTokens + reviewTokens + docTokens,
        breakdown |-> [codebaseContext |-> contextTokens,
                       implementation |-> implTokens,
                       tests |-> testTokens,
                       review |-> reviewTokens,
                       documentation |-> docTokens],
        confidence |-> calculateConfidence(issue, context),
        filesAnalyzed |-> Len(context.filesLikelyTouched)
                              + Len(context.relatedFiles)]

estimate(issue, context) ==
    LET contextTokens == estimateContextTokens(context)
        implTokens == estimateImplementationTokens(issue, context)
        testTokens == RoundDiv(implTokens * testOverhead10, 10)
        reviewTokens == RoundDiv((implTokens + testTokens) * reviewOverhead10
                                     * reviewCycles, 10)
        docTokens == RoundDiv(implTokens * documentation10, 10)
    IN [total |-> BASE_OVERHEAD + contextTokens + implTokens + testTokens
                      + reviewTokens + docTokens,
        breakdown |-> [codebaseContext |-> contextTokens,
                       implementation |-> implTokens,
                       tests |-> testTokens,
                       review |-> reviewTokens,
                       documentation |-> docTokens],
        confidence |-> calculateConfidence(issue, context),
        filesAnalyzed |-> Len(context.filesLikelyTouched)
                              + Len(context.relatedFiles)]

aggregateConfidence(estimates) ==
    LET score(c) == CASE c = "high" -> 3 [] c = "medium" -> 2 [] c = "low" -> 1
        total == SumSeq([i \in DOMAIN estimates |-> score(estimates[i].confidence)])
        n == Len(estimates)
    IN \* avg >= 2.5, avg >= 1.5 with avg = total / n; 0 / 0 is NaN, which
       \* fails both comparisons
       IF n > 0 /\ 2 * total >= 5 * n THEN "high"
       ELSE IF n > 0 /\ 2 * total >= 3 * n THEN "medium"
       ELSE "low"

\* The paths of one context in the order the code spreads them.
ContextPaths(ctx) ==
    [i \in DOMAIN ctx.filesLikelyTouched |-> ctx.filesLikelyTouched[i].path]
        \o [i \in DOMAIN ctx.relatedFiles |-> ctx.relatedFiles[i].path]

\* The loop of calculateSharedContextReduction over the files of all issues:
\* <<allFiles, sharedFiles>>.
RECURSIVE ScanFiles(_, _, _)
ScanFiles(files, allFiles, sharedFiles) ==
    IF files = <<>> THEN <<allFiles, sharedFiles>>
    ELSE ScanFiles(Tail(files), allFiles \cup {Head(files)},
                   IF Head(files) \in allFiles
                   THEN sharedFiles \cup {Head(files)} ELSE sharedFiles)

\* The reduction as a rational <<p, q>>.
calculateSharedContextReduction(iss, ctxs) ==
    IF Len(iss) < 2 THEN RatZero
    ELSE LET files == FlattenSeq([i \in DOMAIN iss |->
                          IF ctxs[iss[i].id] = NoContext THEN <<>>
                          ELSE ContextPaths(ctxs[iss[i].id])])
             scan == ScanFiles(files, {}, {})
             nAll == Cardinality(scan[1])
             nShared == Cardinality(scan[2])
         IN IF nAll = 0 THEN RatZero
            \* Math.min(overlapRatio * 0.7, 0.5)
            ELSE IF 7 * nShared * 2 >= 10 * nAll THEN <<1, 2>>
            ELSE <<7 * nShared, 10 * nAll>>

estimateWave(iss, ctxs) ==
    LET estimates == [i \in DOMAIN iss |->
                         estimate(iss[i],
                                  IF ctxs[iss[i].id] = NoContext
                                  THEN createEmptyContext ELSE ctxs[iss[i].id])]
        red == calculateSharedContextReduction(iss, ctxs)
        sum(F(_)) == SumSeq([i \in DOMAIN estimates |-> F(estimates[i].breakdown)])
        ctxSum == sum(LAMBDA b : b.codebaseContext)
        totalBreakdown ==
            [codebaseContext |-> RoundDiv(ctxSum * (red[2] - red[1]), red[2]),
             implementation |-> sum(LAMBDA b : b.implementation),
             tests |-> sum(LAMBDA b : b.tests),
             review |-> sum(LAMBDA b : b.review),
             documentation |-> sum(LAMBDA b : b.documentation)]
    IN [total |-> totalBreakdown.codebaseContext + totalBreakdown.implementation
                      + totalBreakdown.tests + totalBreakdown.review
                      + totalBreakdown.documentation,
        breakdown |-> totalBreakdown,
        confidence |-> aggregateConfidence(estimates),
        filesAnalyzed |-> SumSeq([i \in DOMAIN estimates |->
                                     estimates[i].filesAnalyzed])]

-----------------------------------------------------------------------------
(* WaveOrganizer *)

\* DEFAULT_ORGANIZER_CONFIG; similarityThreshold 0.3 is the rational 3/10.
DEFAULT_ORGANIZER_CONFIG ==
    [similarityThreshold |-> <<3, 10>>,
     maxIssuesPerWave |-> 5,
     tokenBudgetPerWave |-> 150000,
     respectDependencies |-> TRUE]

getFilesForIssue(issue, ctxs) ==
    IF ctxs[issue.id] = NoContext THEN {}
    ELSE Range(ContextPaths(ctxs[issue.id]))

\* The overlap taken relative to setA instead of the union.
jaccardSimilarity_OverA(setA, setB) ==
    IF Cardinality(setA) = 0 /\ Cardinality(setB) = 0 THEN RatZero
    ELSE <<Cardinality({x \in setA : x \in setB}),
           IF setA = {} THEN 1 ELSE Cardinality(setA)>>

jaccardSimilarity(setA, setB) ==
    IF Cardinality(setA) = 0 /\ Cardinality(setB) = 0 THEN RatZero
    ELSE LET intersection == {x \in setA : x \in setB}
             union == setA \cup setB
         IN <<Cardinality(intersection), Cardinality(union)>>

\* Map<id, Map<id, number>>: one row per issue id, one entry per issue id.
calculateOverlapMatrix(iss, ctxs) ==
    LET ids == {iss[i].id : i \in DOMAIN iss}
        byId(a) == iss[CHOOSE i \in DOMAIN iss : iss[i].id = a]
    IN [a \in ids |-> [b \in ids |->
           IF a = b THEN RatOne
           ELSE jaccardSimilarity(getFilesForIssue(byId(a), ctxs),
                                  getFilesForIssue(byId(b), ctxs))]]

priorityOrder(p) ==
    CASE p = "P0-Critical" -> 0
      [] p = "P1-High" -> 1
      [] p = "P2-Medium" -> 2
      [] p = "P3-Low" -> 3

sortByPriority(iss) ==
    ArraySort(iss, [i \in DOMAIN iss |-> [j \in DOMAIN iss |->
                      priorityOrder(iss[i].priority) - priorityOrder(iss[j].priority)]])

\* overlapMatrix.get(a)?.get(b) || 0
MatrixGet(matrix, a, b) ==
    IF a \in DOMAIN matrix /\ b \in DOMAIN matrix[a] THEN matrix[a][b] ELSE RatZero

\* SimilarTo without the check that `other` is still unassigned.
SimilarTo_IgnoreAssigned(issue, sortedIssues, assigned, matrix, cfg) ==
    SelectSeq(sortedIssues,
              LAMBDA other :
                  \/ other.id = issue.id
                  \/ RatGE(MatrixGet(matrix, issue.id, other.id),
                           cfg.similarityThreshold))

\* The filter of groupByContext for the seed `issue`.
SimilarTo(issue, sortedIssues, assigned, matrix, cfg) ==
    SelectSeq(sortedIssues,
              LAMBDA other :
                  /\ other.id \notin assigned
                  /\ \/ other.id = issue.id
                     \/ RatGE(MatrixGet(matrix, issue.id, other.id),
                              cfg.similarityThreshold))

\* The loop of groupByContext from position k of sortedIssues on.
RECURSIVE GroupLoop(_, _, _, _, _, _)
GroupLoop(sortedIssues, k, assigned, acc, matrix, cfg) ==
    IF k > Len(sortedIssues) THEN acc
    ELSE IF sortedIssues[k].id \in assigned
         THEN GroupLoop(sortedIssues, k + 1, assigned, acc, matrix, cfg)
         ELSE LET similar == SimilarTo(sortedIssues[k], sortedIssues, assigned,
                                       matrix, cfg)
              IN GroupLoop(sortedIssues, k + 1,
                           assigned \cup {similar[i].id : i \in DOMAIN similar},
                           Append(acc, [issues |-> similar, sharedFiles |-> {}]),
                           matrix, cfg)

\* groupByContext walking the issues in input order
groupByContext_InputOrder(iss, matrix, cfg) ==
    GroupLoop(iss, 1, {}, <<>>, matrix, cfg)

groupByContext(iss, matrix, cfg) ==
    GroupLoop(sortByPriority(iss), 1, {}, <<>>, matrix, cfg)

\* dependencyMap.get(x.id)?.has(y.id): the map holds x.id -> {x.parent.id}
\* for every input issue x that has a parent.
DependsOn(x, y, iss) ==
    \E i \in DOMAIN iss :
        iss[i].id = x.id /\ iss[i].parent # NoParent /\ iss[i].parent = y.id

dependencyCompare(a, b, iss) ==
    LET aDependsOnB == \E i \in DOMAIN a.issues : \E j \in DOMAIN b.issues :
                           DependsOn(a.issues[i], b.issues[j], iss)
        bDependsOnA == \E j \in DOMAIN b.issues : \E i \in DOMAIN a.issues :
                           DependsOn(b.issues[j], a.issues[i], iss)
    IN IF aDependsOnB /\ ~bDependsOnA THEN 1
       ELSE IF bDependsOnA /\ ~aDependsOnB THEN -1
       ELSE 0

orderByDependencies(gs, iss) ==
    ArraySort(gs, [i \in DOMAIN gs |-> [j \in DOMAIN gs |->
                     dependencyCompare(gs[i], gs[j], iss)]])

\* SplitLoop that keeps the running total when it starts a new sub-group.
RECURSIVE SplitLoop_TokensKept(_, _, _, _, _, _, _)
SplitLoop_TokensKept(iss, k, currentIssues, currentTokens, subGroups, ctxs, cfg) ==
    IF k > Len(iss)
    THEN IF Len(currentIssues) > 0
         THEN Append(subGroups, [issues |-> currentIssues, sharedFiles |-> {}])
         ELSE subGroups
    ELSE LET issue == iss[k]
             ctx == IF ctxs[issue.id] = NoContext THEN createEmptyContext
                    ELSE ctxs[issue.id]
             issueEstimate == estimate(issue, ctx)
             startNew ==
                 \/ Len(currentIssues) >= cfg.maxIssuesPerWave
                 \/ /\ currentTokens + issueEstimate.total > cfg.tokenBudgetPerWave
                    /\ Len(currentIssues) > 0
         IN IF startNew
            THEN SplitLoop_TokensKept(iss, k + 1, <<issue>>,
                                      currentTokens + issueEstimate.total,
                                      Append(subGroups, [issues |-> currentIssues,
                                                         sharedFiles |-> {}]),
                                      ctxs, cfg)
            ELSE SplitLoop_TokensKept(iss, k + 1, Append(currentIssues, issue),
                                      currentTokens + issueEstimate.total,
                                      subGroups, ctxs, cfg)

\* SplitLoop that closes a sub-group only once it holds more than the cap.
RECURSIVE SplitLoop_CapExceeded(_, _, _, _, _, _, _)
SplitLoop_CapExceeded(iss, k, currentIssues, currentTokens, subGroups, ctxs, cfg) ==
    IF k > Len(iss)
    THEN IF Len(currentIssues) > 0
         THEN Append(subGroups, [issues |-> currentIssues, sharedFiles |-> {}])
         ELSE subGroups
    ELSE LET issue == iss[k]
             ctx == IF ctxs[issue.id] = NoContext THEN createEmptyContext
                    ELSE ctxs[issue.id]
             issueEstimate == estimate(issue, ctx)
             startNew ==
                 \/ Len(currentIssues) > cfg.maxIssuesPerWave
                 \/ /\ currentTokens + issueEstimate.total > cfg.tokenBudgetPerWave
                    /\ Len(currentIssues) > 0
         IN IF startNew
            THEN SplitLoop_CapExceeded(iss, k + 1, <<issue>>, issueEstimate.total,
                                       Append(subGroups, [issues |-> currentIssues,
                                                          sharedFiles |-> {}]),
                                       ctxs, cfg)
            ELSE SplitLoop_CapExceeded(iss, k + 1, Append(currentIssues, issue),
                                       currentTokens + issueEstimate.total,
                                       subGroups, ctxs, cfg)

\* The loop of splitGroupIfNeeded from position k of the group's issues on.
RECURSIVE SplitLoop(_, _, _, _, _, _, _)
SplitLoop(iss, k, currentIssues, currentTokens, subGroups, ctxs, cfg) ==
    IF k > Len(iss)
    THEN IF Len(currentIssues) > 0
         THEN Append(subGroups, [issues |-> currentIssues, sharedFiles |-> {}])
         ELSE subGroups
    ELSE LET issue == iss[k]
             ctx == IF ctxs[issue.id] = NoContext THEN createEmptyContext
                    ELSE ctxs[issue.id]
             issueEstimate == estimate(issue, ctx)
             startNew ==
                 \/ Len(currentIssues) >= cfg.maxIssuesPerWave
                 \/ /\ currentTokens + issueEstimate.total > cfg.tokenBudgetPerWave
                    /\ Len(currentIssues) > 0
         IN IF startNew
            THEN SplitLoop(iss, k + 1, <<issue>>, issueEstimate.total,
                           Append(subGroups, [issues |-> currentIssues,
                                              sharedFiles |-> {}]),
                           ctxs, cfg)
            ELSE SplitLoop(iss, k + 1, Append(currentIssues, issue),
                           currentTokens + issueEstimate.total, subGroups,
                           ctxs, cfg)

\* splitGroupIfNeeded that keeps a group within the cap whatever it costs
splitGroupIfNeeded_CapOnly(group, ctxs, cfg) ==
    IF Len(group.issues) <= cfg.maxIssuesPerWave
    THEN <<group>>
    ELSE SplitLoop(group.issues, 1, <<>>, 0, <<>>, ctxs, cfg)

splitGroupIfNeeded(group, ctxs, cfg) ==
    IF /\ Len(group.issues) <= cfg.maxIssuesPerWave
       /\ estimateWave(group.issues, ctxs).total <= cfg.tokenBudgetPerWave
    THEN <<group>>
    ELSE SplitLoop(group.issues, 1, <<>>, 0, <<>>, ctxs, cfg)

\* The numbers collected into the Set, in insertion order made ascending.
RECURSIVE AscendingSeq(_)
AscendingSeq(S) ==
    IF S = {} THEN <<>>
    ELSE LET m == CHOOSE x \in S : \A y \in S : x <= y
         IN <<m>> \o AscendingSeq(S \ {m})

\* findWaveDependencies looking at the parent of the first issue only
findWaveDependencies_FirstIssue(iss, existingWaves) ==
    AscendingSeq({existingWaves[w].number : w \in
        {w \in DOMAIN existingWaves :
            \E i \in DOMAIN iss :
                /\ i = 1
                /\ iss[i].parent # NoParent
                /\ \E j \in DOMAIN existingWaves[w].issues :
                       existingWaves[w].issues[j].id = iss[i].parent}})

findWaveDependencies(iss, existingWaves) ==
    AscendingSeq({existingWaves[w].number : w \in
        {w \in DOMAIN existingWaves :
            \E i \in DOMAIN iss :
                /\ iss[i].parent # NoParent
                /\ \E j \in DOMAIN existingWaves[w].issues :
                       existingWaves[w].issues[j].id = iss[i].parent}})

\* isParallelizable looking at the parent of the first issue only
isParallelizable_FirstIssue(iss) ==
    LET ids == {iss[i].id : i \in DOMAIN iss}
    IN ~ \E i \in DOMAIN iss :
             i = 1 /\ iss[i].parent # NoParent /\ iss[i].parent \in ids

isParallelizable(iss) ==
    LET ids == {iss[i].id : i \in DOMAIN iss}
    IN ~ \E i \in DOMAIN iss : iss[i].parent # NoParent /\ iss[i].parent \in ids

\* SubGroupLoop with the wave pushed before its dependencies are looked up.
RECURSIVE SubGroupLoop_PushFirst(_, _, _, _)
SubGroupLoop_PushFirst(subGroups, ws, waveNumber, ctxs) ==
    IF subGroups = <<>> THEN <<ws, waveNumber>>
    ELSE LET subGroup == Head(subGroups)
             pushed == Append(ws, [number |-> waveNumber,
                                   issues |-> subGroup.issues])
             wave == [number |-> waveNumber,
                      issues |-> subGroup.issues,
                      tokenEstimate |-> estimateWave(subGroup.issues, ctxs),
                      dependencies |-> findWaveDependencies(subGroup.issues, pushed),
                      parallelizable |-> isParallelizable(subGroup.issues)]
         IN SubGroupLoop_PushFirst(Tail(subGroups), Append(ws, wave),
                                   waveNumber + 1, ctxs)

\* The inner loop of groupsToWaves over the sub-groups of one group:
\* <<waves, waveNumber>>.
RECURSIVE SubGroupLoop(_, _, _, _)
SubGroupLoop(subGroups, ws, waveNumber, ctxs) ==
    IF subGroups = <<>> THEN <<ws, waveNumber>>
    ELSE LET subGroup == Head(subGroups)
             wave == [number |-> waveNumber,
                      issues |-> subGroup.issues,
                      tokenEstimate |-> estimateWave(subGroup.issues, ctxs),
                      dependencies |-> findWaveDependencies(subGroup.issues, ws),
                      parallelizable |-> isParallelizable(subGroup.issues)]
         IN SubGroupLoop(Tail(subGroups), Append(ws, wave), waveNumber + 1, ctxs)

\* groupsToWaves with the wave counter restarted for every group.
RECURSIVE WaveLoop_Restart(_, _, _, _, _)
WaveLoop_Restart(gs, ws, waveNumber, ctxs, cfg) ==
    IF gs = <<>> THEN ws
    ELSE LET r == SubGroupLoop(splitGroupIfNeeded(Head(gs), ctxs, cfg),
                               ws, 1, ctxs)
         IN WaveLoop_Restart(Tail(gs), r[1], r[2], ctxs, cfg)

RECURSIVE WaveLoop(_, _, _, _, _)
WaveLoop(gs, ws, waveNumber, ctxs, cfg) ==
    IF gs = <<>> THEN ws
    ELSE LET r == SubGroupLoop(splitGroupIfNeeded(Head(gs), ctxs, cfg),
                               ws, waveNumber, ctxs)
         IN WaveLoop(Tail(gs), r[1], r[2], ctxs, cfg)

groupsToWaves(gs, ctxs, cfg) == WaveLoop(gs, <<>>, 1, ctxs, cfg)

-----------------------------------------------------------------------------
(* IEEE-754 binary64 for the one computation the risk score rounds:        *)
(* Math.round((totalScore / maxScore) * 100).  A double is                 *)
(* [m |-> mantissa, e |-> exponent of its leading bit]; the mantissa is    *)
(* the MANTISSA_BITS-bit integer in limbs of LIMB_BITS bits, least         *)
(* significant limb first, so that no intermediate exceeds 31 bits.        *)

MANTISSA_BITS == 53
LIMB_BITS == 12
MANTISSA_LIMBS == 5

RECURSIVE Pow2(_)
Pow2(k) == IF k = 0 THEN 1 ELSE 2 * Pow2(k - 1)

LIMB == Pow2(LIMB_BITS)
TOP_LIMB_BITS == MANTISSA_BITS - LIMB_BITS * (MANTISSA_LIMBS - 1)

\* floor(log2(n / d)) for n, d >= 1
RECURSIVE Log2Floor(_, _)
Log2Floor(n, d) ==
    IF n >= d THEN (IF n < 2 * d THEN 0 ELSE 1 + Log2Floor(n, 2 * d))
    ELSE Log2Floor(2 * n, d) - 1

\* bit j (bit 0 is the least significant) of the number with these limbs
LimbBit(limbs, j) == (limbs[(j \div LIMB_BITS) + 1] \div Pow2(j % LIMB_BITS)) % 2

\* limbs + 1; the top limb absorbs the last carry
RECURSIVE IncrementLimbs(_, _)
IncrementLimbs(limbs, i) ==
    IF i = Len(limbs) \/ limbs[i] + 1 < LIMB
    THEN [limbs EXCEPT ![i] = @ + 1]
    ELSE IncrementLimbs([limbs EXCEPT ![i] = 0], i + 1)

\* Round to nearest, ties to even: the MANTISSA_BITS-bit number m with
\* leading-bit exponent e was followed by roundBit and then by a non-zero
\* tail iff sticky.
RoundToDouble(m, e, roundBit, sticky) ==
    IF roundBit = 1 /\ (sticky \/ m[1] % 2 = 1)
    THEN LET inc == IncrementLimbs(m, 1)
         IN IF inc[MANTISSA_LIMBS] = Pow2(TOP_LIMB_BITS)
            THEN [m |-> [l \in 1..MANTISSA_LIMBS |->
                            IF l = MANTISSA_LIMBS THEN Pow2(TOP_LIMB_BITS - 1) ELSE 0],
                  e |-> e + 1]
            ELSE [m |-> inc, e |-> e]
    ELSE [m |-> m, e |-> e]

\* k more limbs of the quotient by long division; <<limbs, remainder>>
RECURSIVE DivLimbs(_, _, _, _)
DivLimbs(r, den, k, out) ==
    IF k = 0 THEN <<out, r>>
    ELSE DivLimbs((r * LIMB) % den, den, k - 1, <<(r * LIMB) \div den>> \o out)

\* The double n / d for integers n, d >= 1
FloatDiv(n, d) ==
    LET e == Log2Floor(n, d)
        num == IF e >= 0 THEN n ELSE n * Pow2(-e)
        den == IF e >= 0 THEN d * Pow2(e) ELSE d
        scaled == num * Pow2(TOP_LIMB_BITS - 1)
        q == DivLimbs(scaled % den, den, MANTISSA_LIMBS - 1, <<scaled \div den>>)
    IN RoundToDouble(q[1], e, (2 * q[2]) \div den, (2 * q[2]) % den # 0)

RECURSIVE MulLimbs(_, _, _, _, _)
MulLimbs(limbs, k, i, carry, out) ==
    IF i > Len(limbs) THEN Append(out, carry)
    ELSE LET t == limbs[i] * k + carry
         IN MulLimbs(limbs, k, i + 1, t \div LIMB, Append(out, t % LIMB))

\* The double x * k for a double x > 0 and an integer 1 <= k < LIMB
FloatMulInt(x, k) ==
    LET p == MulLimbs(x.m, k, 1, 0, <<>>)
        topLimb == IF p[MANTISSA_LIMBS + 1] # 0 THEN MANTISSA_LIMBS + 1
                   ELSE MANTISSA_LIMBS
        extra == LIMB_BITS * (topLimb - 1) + Log2Floor(p[topLimb], 1) + 1
                     - MANTISSA_BITS
        shifted == [l \in 1..MANTISSA_LIMBS |->
                       (p[l] \div Pow2(extra))
                           + (p[l + 1] % Pow2(extra)) * Pow2(LIMB_BITS - extra)]
        roundBit == IF extra >= 1 THEN LimbBit(p, extra - 1) ELSE 0
        sticky == extra >= 2 /\ p[1] % Pow2(extra - 1) # 0
    IN RoundToDouble(shifted, x.e + extra, roundBit, sticky)

\* floor(m / 2^sh) for a mantissa whose integer part is below 2^31
ShiftRight(m, sh) ==
    SumSeq([l \in 1..MANTISSA_LIMBS |->
               LET pos == LIMB_BITS * (l - 1)
               IN IF pos >= sh THEN m[l] * Pow2(pos - sh)
                  ELSE IF sh - pos >= LIMB_BITS THEN 0
                  ELSE m[l] \div Pow2(sh - pos)])

\* Math.round of a double 0 < x < 2^31: floor(x + 0.5)
MathRound(x) ==
    IF x.e < -1 THEN 0
    ELSE IF x.e = -1 THEN 1
    ELSE LET sh == MANTISSA_BITS - 1 - x.e
         IN ShiftRight(x.m, sh) + (IF sh >= 1 THEN LimbBit(x.m, sh - 1) ELSE 0)

-----------------------------------------------------------------------------
(* Strings and regular expressions as RiskPredictor uses them *)

Min(a, b) == IF a <= b THEN a ELSE b

LowerChar(c) ==
    CASE c = "A" -> "a" [] c = "B" -> "b" [] c = "C" -> "c" [] c = "D" -> "d"
      [] c = "E" -> "e" [] c = "F" -> "f" [] c = "G" -> "g" [] c = "H" -> "h"
      [] c = "I" -> "i" [] c = "J" -> "j" [] c = "K" -> "k" [] c = "L" -> "l"
      [] c = "M" -> "m" [] c = "N" -> "n" [] c = "O" -> "o" [] c = "P" -> "p"
      [] c = "Q" -> "q" [] c = "R" -> "r" [] c = "S" -> "s" [] c = "T" -> "t"
      [] c = "U" -> "u" [] c = "V" -> "v" [] c = "W" -> "w" [] c = "X" -> "x"
      [] c = "Y" -> "y" [] c = "Z" -> "z" [] OTHER -> c

\* String.prototype.toLowerCase on ASCII text, character by character
RECURSIVE toLowerCase(_)
toLowerCase(s) ==
    IF Len(s) = 0 THEN s
    ELSE IF Len(s) = 1 THEN LowerChar(s)
    ELSE LET h == Len(s) \div 2
         IN toLowerCase(SubSeq(s, 1, h)) \o toLowerCase(SubSeq(s, h + 1, Len(s)))

\* cat.replace(/_/g, ' ')
RECURSIVE ReplaceUnderscores(_)
ReplaceUnderscores(s) ==
    IF Len(s) = 0 THEN s
    ELSE IF Len(s) = 1 THEN (IF s = "_" THEN " " ELSE s)
    ELSE LET h == Len(s) \div 2
         IN ReplaceUnderscores(SubSeq(s, 1, h))
                \o ReplaceUnderscores(SubSeq(s, h + 1, Len(s)))

\* String.prototype.includes
includes(s, kw) ==
    \E i \in 1..(Len(s) - Len(kw) + 1) : SubSeq(s, i, i + Len(kw) - 1) = kw

\* String.prototype.endsWith, for the $-anchored test-file pattern
endsWith(s, suffix) ==
    Len(suffix) <= Len(s) /\ SubSeq(s, Len(s) - Len(suffix) + 1, Len(s)) = suffix

\* Array.prototype.join
RECURSIVE Join(_, _)
Join(strs, sep) ==
    IF Len(strs) = 0 THEN ""
    ELSE IF Len(strs) = 1 THEN strs[1]
    ELSE strs[1] \o sep \o Join(Tail(strs), sep)

\* A regular expression is a set of alternatives; an alternative is a
\* sequence of elements: one of several literals, \s+, or (.*).
Lit(alts) == [kind |-> "lit", alts |-> alts]
Spaces == [kind |-> "spaces", alts |-> {}]
AnyChars == [kind |-> "any", alts |-> {}]
Word(w) == {<<Lit({w})>>}

IsSpace(c) == c \in {" ", "\t", "\n", "\r"}

RECURSIVE MatchFrom(_, _, _, _)
MatchFrom(s, pos, alt, k) ==
    IF k > Len(alt) THEN TRUE
    ELSE CASE alt[k].kind = "lit" ->
                  \E a \in alt[k].alts :
                      /\ pos + Len(a) - 1 <= Len(s)
                      /\ SubSeq(s, pos, pos + Len(a) - 1) = a
                      /\ MatchFrom(s, pos + Len(a), alt, k + 1)
           [] alt[k].kind = "spaces" ->
                  \E n \in 1..(Len(s) - pos + 1) :
                      /\ \A j \in pos..(pos + n - 1) : IsSpace(SubSeq(s, j, j))
                      /\ MatchFrom(s, pos + n, alt, k + 1)
           [] alt[k].kind = "any" ->
                  \E n \in 0..(Len(s) - pos + 1) :
                      /\ \A j \in pos..(pos + n - 1) : SubSeq(s, j, j) \notin {"\n", "\r"}
                      /\ MatchFrom(s, pos + n, alt, k + 1)

\* RegExp.prototype.test of an unanchored pattern.  The description patterns
\* carry the i flag and are only run on lowercased text, so their literals
\* are compared as written.
RegExpTest(re, s) ==
    \E alt \in re : \E pos \in 1..(Len(s) + 1) : MatchFrom(s, pos, alt, 1)

-----------------------------------------------------------------------------
(* WaveOrganizer, step 5: agent assignment *)

\* The seven tests of inferAgentType in the order of its if statements: the
\* label list, and the alternatives of the pattern.  Every alternative is a
\* literal, so the pattern matches where the text includes one of them.
AGENT_SIGNALS ==
    << [agentType |-> "security-specialist",
        labels |-> {"security", "auth", "authentication", "vulnerability"},
        pattern |-> {"security", "auth", "encrypt", "credential", "permission",
                     "access control", "xss", "sql injection", "csrf"}],
       [agentType |-> "frontend-developer",
        labels |-> {"frontend", "ui", "ux", "component", "react", "vue", "css"},
        pattern |-> {"component", "ui", "ux", "react", "vue", "angular", "css",
                     "style", "layout", "responsive", "accessibility"}],
       [agentType |-> "backend-developer",
        labels |-> {"backend", "api", "database", "server"},
        pattern |-> {"api", "endpoint", "database", "query", "migration",
                     "server", "graphql", "rest"}],
       [agentType |-> "devops-engineer",
        labels |-> {"devops", "ci", "cd", "infrastructure", "deployment"},
        pattern |-> {"ci/cd", "pipeline", "deploy", "docker", "kubernetes",
                     "terraform", "aws", "gcp", "azure"}],
       [agentType |-> "test-engineer",
        labels |-> {"testing", "test", "qa", "e2e"},
        pattern |-> {"test", "coverage", "e2e", "integration test", "unit test",
                     "assertion"}],
       [agentType |-> "documentation-writer",
        labels |-> {"documentation", "docs", "readme"},
        pattern |-> {"documentation", "readme", "guide", "tutorial", "api doc"}],
       [agentType |-> "researcher",
        labels |-> {"spike", "research", "investigation", "exploration"},
        pattern |-> {"research", "investigate", "explore", "prototype", "poc",
                     "proof of concept"}] >>

\* `${issue.title} ${issue.description}`.toLowerCase(); an absent description
\* is spelled "undefined" by the template, which no pattern matches.
AgentText(issue) == toLowerCase(issue.title \o " " \o issue.description)

\* issue.labels.map(l => l.name.toLowerCase())
AgentLabels(issue) ==
    {toLowerCase(issue.labels[i].name) : i \in DOMAIN issue.labels}

\* labels.some(l => [...].includes(l)) || /.../i.test(text)
HasSignal(k, text, labels) ==
    \/ labels \cap AGENT_SIGNALS[k].labels # {}
    \/ \E kw \in AGENT_SIGNALS[k].pattern : includes(text, kw)

\* inferAgentType returning at the last test that passes instead of the first
inferAgentType_LastMatch(issue) ==
    LET text == AgentText(issue)
        labels == AgentLabels(issue)
        hits == {k \in DOMAIN AGENT_SIGNALS : HasSignal(k, text, labels)}
    IN IF hits = {} THEN "general-purpose"
       ELSE AGENT_SIGNALS[CHOOSE k \in hits : \A m \in hits : m <= k].agentType

inferAgentType(issue) ==
    LET text == AgentText(issue)
        labels == AgentLabels(issue)
    IN IF HasSignal(1, text, labels) THEN "security-specialist"
       ELSE IF HasSignal(2, text, labels) THEN "frontend-developer"
       ELSE IF HasSignal(3, text, labels) THEN "backend-developer"
       ELSE IF HasSignal(4, text, labels) THEN "devops-engineer"
       ELSE IF HasSignal(5, text, labels) THEN "test-engineer"
       ELSE IF HasSignal(6, text, labels) THEN "documentation-writer"
       ELSE IF HasSignal(7, text, labels) THEN "researcher"
       ELSE "general-purpose"

generateAgentRationale(issue, agentType) ==
    CASE agentType = "security-specialist" ->
             "Issue involves security-sensitive operations"
      [] agentType = "backend-developer" ->
             "Issue focuses on API/database/server-side work"
      [] agentType = "frontend-developer" ->
             "Issue involves UI components or user experience"
      [] agentType = "test-engineer" -> "Issue is primarily about testing coverage"
      [] agentType = "devops-engineer" -> "Issue involves CI/CD or infrastructure"
      [] agentType = "documentation-writer" ->
             "Issue focuses on documentation updates"
      [] agentType = "researcher" -> "Issue requires investigation or prototyping"
      [] agentType = "general-purpose" -> "Issue spans multiple domains"

assignAgents(iss) ==
    [i \in DOMAIN iss |->
        LET agentType == inferAgentType(iss[i])
        IN [issueId |-> iss[i].id,
            issueIdentifier |-> iss[i].identifier,
            agentType |-> agentType,
            rationale |-> generateAgentRationale(iss[i], agentType)]]

-----------------------------------------------------------------------------
(* RiskPredictor (src/unnamed/part_000) *)

RiskLikelihoods == {"low", "medium", "high"}
RiskImpacts == {"low", "medium", "high", "critical"}

RISK_PATTERNS ==
    << [category |-> "external_dependency",
        keywords |-> <<"api", "external", "third-party", "integration", "webhook",
                       "oauth", "sdk">>,
        filePatterns |-> <<Word("api/"), Word("integrations/"), Word("external/"),
                           Word("clients/")>>,
        descriptionPatterns |->
            << {<<Lit({"call"}), Lit({"s", ""}), Spaces,
                  Lit({"external", "third-party", "remote"})>>},
               {<<Lit({"integrat"}), Lit({"e", "ion"}), Spaces, Lit({"with"})>>},
               {<<Lit({"api"}), Spaces, Lit({"call", "request", "endpoint"})>>},
               {<<Lit({"oauth", "webhook", "stripe", "github", "linear"})>>} >>,
        defaultLikelihood |-> "medium",
        defaultImpact |-> "high",
        mitigationTemplate |-> "Add fallback mechanism, implement retry logic with exponential backoff, cache responses where possible"],
       [category |-> "breaking_change",
        keywords |-> <<"schema", "migration", "refactor", "rename", "restructure",
                       "breaking">>,
        filePatterns |-> <<Word("schema"), Word("migrations/"), Word("db/"),
                           Word("models/")>>,
        descriptionPatterns |->
            << {<<Lit({"chang"}), Lit({"e", "ing"}), Spaces,
                  Lit({"schema", "database", "table"})>>},
               {<<Lit({"migrat"}), Lit({"e", "ion"})>>},
               {<<Lit({"breaking"}), Spaces, Lit({"change"})>>},
               Word("refactor"),
               {<<Lit({"renam"}), Lit({"e", "ing"})>>} >>,
        defaultLikelihood |-> "high",
        defaultImpact |-> "medium",
        mitigationTemplate |-> "Version the schema, create migration script, add backwards compatibility layer, test rollback procedure"],
       [category |-> "integration",
        keywords |-> <<"depends", "dependency", "requires", "blocks", "after",
                       "before">>,
        filePatterns |-> <<>>,
        descriptionPatterns |->
            << {<<Lit({"depends"}), Spaces, Lit({"on"})>>},
               {<<Lit({"require"}), Lit({"s", ""}), Spaces,
                  Lit({"completion", "implementation"})>>},
               {<<Lit({"after"}), Spaces, AnyChars, Spaces, Lit({"is"}), Spaces,
                  Lit({"done", "complete"})>>},
               {<<Lit({"block"}), Lit({"s", ""}), Spaces, Lit({"by"})>>},
               Word("prerequisite") >>,
        defaultLikelihood |-> "medium",
        defaultImpact |-> "high",
        mitigationTemplate |-> "Define interface contract first, create mock implementations for parallel development, establish clear handoff criteria"],
       [category |-> "performance",
        keywords |-> <<"performance", "scale", "optimize", "cache", "load",
                       "concurrent">>,
        filePatterns |-> <<Word("cache/"), Word("performance/"), Word("workers/")>>,
        descriptionPatterns |->
            << Word("performance"),
               {<<Lit({"scal"}), Lit({"e", "ability", "ing"})>>},
               {<<Lit({"optimi"}), Lit({"ze", "zation"})>>},
               {<<Lit({"slow", "fast", "speed"})>>},
               {<<Lit({"concurrent", "parallel"})>>},
               {<<Lit({"large"}), Spaces, Lit({"data", "dataset", "volume"})>>} >>,
        defaultLikelihood |-> "medium",
        defaultImpact |-> "medium",
        mitigationTemplate |-> "Add performance benchmarks, implement caching strategy, set up monitoring alerts, define acceptable thresholds"],
       [category |-> "security",
        keywords |-> <<"security", "auth", "permission", "encrypt", "vulnerability",
                       "credential">>,
        filePatterns |-> <<Word("auth/"), Word("security/"), Word("permissions/")>>,
        descriptionPatterns |->
            << Word("security"),
               {<<Lit({"auth"}), Lit({"entication", "orization", ""})>>},
               {<<Lit({"permission"})>>,
                <<Lit({"access"}), Spaces, Lit({"control"})>>},
               {<<Lit({"encrypt", "decrypt"})>>},
               {<<Lit({"vulnerabilit"}), Lit({"y", "ies"})>>},
               {<<Lit({"credential", "secret", "key"})>>} >>,
        defaultLikelihood |-> "medium",
        defaultImpact |-> "critical",
        mitigationTemplate |-> "Conduct security review, add threat model, implement defense in depth, ensure secrets management compliance"],
       [category |-> "data_integrity",
        keywords |-> <<"data", "consistency", "transaction", "atomic", "rollback">>,
        filePatterns |-> <<Word("db/"), Word("repositories/"), Word("transactions/")>>,
        descriptionPatterns |->
            << {<<Lit({"data"}), Spaces, Lit({"integrity", "consistency"})>>},
               Word("transaction"),
               Word("atomic"),
               Word("rollback"),
               {<<Lit({"race"}), Spaces, Lit({"condition"})>>} >>,
        defaultLikelihood |-> "low",
        defaultImpact |-> "high",
        mitigationTemplate |-> "Use database transactions, implement idempotency, add data validation layer, create rollback procedures"],
       [category |-> "resource_constraint",
        keywords |-> <<"memory", "cpu", "disk", "quota", "limit", "timeout">>,
        filePatterns |-> <<>>,
        descriptionPatterns |->
            << {<<Lit({"memory", "cpu", "disk"})>>},
               {<<Lit({"quota", "limit"})>>},
               Word("timeout"),
               {<<Lit({"resource"}), Spaces, Lit({"constraint", "limit"})>>},
               {<<Lit({"out"}), Spaces, Lit({"of"}), Spaces,
                  Lit({"memory", "space"})>>} >>,
        defaultLikelihood |-> "low",
        defaultImpact |-> "medium",
        mitigationTemplate |-> "Add resource monitoring, implement graceful degradation, set up alerts, define resource budgets"],
       [category |-> "timeline",
        keywords |-> <<"deadline", "urgent", "critical", "blocker", "priority">>,
        filePatterns |-> <<>>,
        descriptionPatterns |->
            << Word("deadline"),
               {<<Lit({"urgent", "critical", "blocker"})>>},
               {<<Lit({"time"}), Spaces, Lit({"sensitive", "critical"})>>},
               {<<Lit({"must"}), Spaces, Lit({"be"}), Spaces,
                  Lit({"done", "complete"})>>} >>,
        defaultLikelihood |-> "medium",
        defaultImpact |-> "medium",
        mitigationTemplate |-> "Break into smaller deliverables, identify MVP scope, establish checkpoints, prepare contingency plan"] >>

\* context?.filePaths: CodebaseContext declares no such member, so it is
\* undefined unless the caller's object happens to carry one.
filePathsOf(context) ==
    IF context # NoContext /\ "filePaths" \in DOMAIN context
    THEN context.filePaths
    ELSE <<>>

\* issue.parentId: Issue declares `parent`, not `parentId`.
parentIdOf(issue) ==
    IF "parentId" \in DOMAIN issue THEN issue.parentId ELSE NoParent

\* String(label) of a Label record, as Array.prototype.join converts it
LabelToString(label) == "[object Object]"

\* `${issue.title} ${issue.description || ''} ${issue.labels?.join(' ') || ''}`
\*     .toLowerCase()
contentOf(issue) ==
    toLowerCase(issue.title \o " " \o issue.description \o " "
                    \o Join([i \in DOMAIN issue.labels |->
                                LabelToString(issue.labels[i])], " "))

categoryDescriptions(category) ==
    CASE category = "external_dependency" -> "relies on external service/API"
      [] category = "breaking_change" -> "may introduce breaking changes"
      [] category = "integration" -> "has dependencies on other issues"
      [] category = "performance" -> "may impact system performance"
      [] category = "security" -> "has security implications"
      [] category = "data_integrity" -> "may affect data consistency"
      [] category = "resource_constraint" -> "may hit resource limits"
      [] category = "timeline" -> "has timeline constraints"

generateRiskDescription(pattern, issue, context) ==
    LET paths == filePathsOf(context)
        joined == Join(SubSeq(paths, 1, Min(3, Len(paths))), ", ")
        files == IF joined = "" THEN "multiple files" ELSE joined
    IN issue.identifier \o " " \o categoryDescriptions(pattern.category)
           \o " (affects: " \o files \o ")"

\* The test with the data model's top priority counted as critical
IsUrgent_P0(issue) == issue.priority \in {"urgent", "critical", "P0-Critical"}

\* issue.priority === 'urgent' || issue.priority === 'critical'
IsUrgent(issue) == issue.priority \in {"urgent", "critical"}

generateMitigation(pattern, issue, context) ==
    LET paths == filePathsOf(context)
        isTestFile(f) == \E suffix \in {".test.ts", ".test.js", ".spec.ts", ".spec.js"} :
                             endsWith(f, suffix)
        coverage == IF Len(paths) > 0 /\ \A i \in DOMAIN paths : ~isTestFile(paths[i])
                    THEN ". Add test coverage for affected files" ELSE ""
        spike == IF IsUrgent(issue)
                 THEN ". Consider spike/POC first given high priority" ELSE ""
    IN pattern.mitigationTemplate \o coverage \o spike

\* The likelihood raised to high by two signals already
adjustLikelihood_TwoSignals(defaultLikelihood, evidenceCount) ==
    IF evidenceCount >= 2 THEN "high"
    ELSE IF evidenceCount = 1 /\ defaultLikelihood = "high" THEN "medium"
    ELSE defaultLikelihood

\* let likelihood = pattern.defaultLikelihood; if (evidenceCount >= 3) ...
adjustLikelihood(defaultLikelihood, evidenceCount) ==
    IF evidenceCount >= 3 THEN "high"
    ELSE IF evidenceCount = 1 /\ defaultLikelihood = "high" THEN "medium"
    ELSE defaultLikelihood

\* The impact bumped from medium only
adjustImpact_MediumOnly(defaultImpact, issue) ==
    IF IsUrgent(issue) /\ defaultImpact = "medium" THEN "high" ELSE defaultImpact

\* let impact = pattern.defaultImpact; if (issue.priority === 'urgent' || ...
adjustImpact(defaultImpact, issue) ==
    IF IsUrgent(issue)
    THEN (IF defaultImpact = "medium" THEN "high"
          ELSE IF defaultImpact = "high" THEN "critical"
          ELSE defaultImpact)
    ELSE defaultImpact

\* The body of analyzeIssue's loop for patterns k, k + 1, ...
RECURSIVE PatternLoop(_, _, _, _, _, _)
PatternLoop(issue, context, content, startId, k, found) ==
    IF k > Len(RISK_PATTERNS) THEN found
    ELSE
        LET pattern == RISK_PATTERNS[k]
            files == filePathsOf(context)
            hasKeyword == \E i \in DOMAIN pattern.keywords :
                              includes(content, pattern.keywords[i])
            hasFileMatch == \E i \in DOMAIN pattern.filePatterns :
                                \E f \in DOMAIN files :
                                    RegExpTest(pattern.filePatterns[i], files[f])
            hasDescriptionMatch == \E i \in DOMAIN pattern.descriptionPatterns :
                                       RegExpTest(pattern.descriptionPatterns[i], content)
            evidenceCount == (IF hasKeyword THEN 1 ELSE 0)
                                 + (IF hasFileMatch THEN 1 ELSE 0)
                                 + (IF hasDescriptionMatch THEN 1 ELSE 0)
            likelihood == adjustLikelihood(pattern.defaultLikelihood, evidenceCount)
            impact == adjustImpact(pattern.defaultImpact, issue)
            risk == [id |-> "RISK-" \o ToString(startId + Len(found)),
                     category |-> pattern.category,
                     issueId |-> issue.id,
                     issueIdentifier |-> issue.identifier,
                     description |-> generateRiskDescription(pattern, issue, context),
                     likelihood |-> likelihood,
                     impact |-> impact,
                     mitigation |-> generateMitigation(pattern, issue, context)]
        IN PatternLoop(issue, context, content, startId, k + 1,
                       IF hasKeyword \/ hasFileMatch \/ hasDescriptionMatch
                       THEN Append(found, risk) ELSE found)

\* analyzeIssue numbering its risks from 1 whatever startId is
analyzeIssue_FromOne(issue, context, startId) ==
    PatternLoop(issue, context, contentOf(issue), 1, 1, <<>>)

analyzeIssue(issue, context, startId) ==
    PatternLoop(issue, context, contentOf(issue), startId, 1, <<>>)

\* The first loop of analyzeIntegrationRisks for issues k, k + 1, ...
RECURSIVE ParentLoop(_, _, _, _)
ParentLoop(iss, startId, k, found) ==
    IF k > Len(iss) THEN found
    ELSE
        LET issue == iss[k]
            parents == {i \in DOMAIN iss : iss[i].id = parentIdOf(issue)}
            parent == iss[CHOOSE i \in parents : \A j \in parents : i <= j]
            risk == [id |-> "RISK-" \o ToString(startId + Len(found)),
                     category |-> "integration",
                     issueId |-> issue.id,
                     issueIdentifier |-> issue.identifier,
                     description |-> issue.identifier \o " depends on parent "
                                         \o parent.identifier,
                     likelihood |-> "high",
                     impact |-> "high",
                     mitigation |-> "Ensure " \o parent.identifier
                         \o " is completed first or define clear interface contract",
                     affectedIssues |-> <<issue.identifier, parent.identifier>>,
                     suggestedWaveAdjustment |-> "Place " \o parent.identifier
                         \o " in earlier wave than " \o issue.identifier]
        IN ParentLoop(iss, startId, k + 1,
                      IF parentIdOf(issue) # NoParent /\ parents # {}
                      THEN Append(found, risk) ELSE found)

\* l.toLowerCase() in the filter callback of the second loop: a Label record
\* has no such method, so the call raises a TypeError.
LabelCallbackThrows(label) == "toLowerCase" \notin DOMAIN label

\* analyzeIntegrationRisks: either it raises, or it returns the risks of the
\* first loop (labels that pass the callback would have to be strings, which
\* labels: Label[] excludes, so the second loop adds nothing).
analyzeIntegrationRisks(iss, startId) ==
    LET fromParents == ParentLoop(iss, startId, 1, <<>>)
    IN IF \E i \in DOMAIN iss : \E l \in DOMAIN iss[i].labels :
              LabelCallbackThrows(iss[i].labels[l])
       THEN [threw |-> TRUE, risks |-> <<>>]
       ELSE [threw |-> FALSE, risks |-> fromParents]

impactWeights(impact) ==
    CASE impact = "low" -> 1
      [] impact = "medium" -> 2
      [] impact = "high" -> 4
      [] impact = "critical" -> 8

likelihoodWeights(likelihood) ==
    CASE likelihood = "low" -> 1
      [] likelihood = "medium" -> 2
      [] likelihood = "high" -> 3

\* const maxScore = 10 * 8 * 3
maxScore == 240

totalScoreOf(rs) ==
    SumSeq([i \in DOMAIN rs |->
               impactWeights(rs[i].impact) * likelihoodWeights(rs[i].likelihood)])

\* calculateRiskScore without Math.min
calculateRiskScore_NoClamp(rs) ==
    IF Len(rs) = 0 THEN 0
    ELSE MathRound(FloatMulInt(FloatDiv(totalScoreOf(rs), maxScore), 100))

calculateRiskScore(rs) ==
    IF Len(rs) = 0 THEN 0
    ELSE Min(100, MathRound(FloatMulInt(FloatDiv(totalScoreOf(rs), maxScore), 100)))

\* The keys of a Map filled in the order of rs, in insertion order
KeysInOrder(keys) ==
    LET first == {i \in DOMAIN keys : \A j \in 1..(i - 1) : keys[j] # keys[i]}
        order == AscendingSeq(first)
    IN [k \in DOMAIN order |-> keys[order[k]]]

\* Array.prototype.filter by a field value
FilterBy(rs, field, value) ==
    LET kept == AscendingSeq({i \in DOMAIN rs : rs[i][field] = value})
    IN [k \in DOMAIN kept |-> rs[kept[k]]]

\* The adjustments of one entry of risksByIssue
AdjustmentsFor(issueId, issueRisks) ==
    LET integration == FilterBy(issueRisks, "category", "integration")
        dependencies ==
            FlattenSeq([i \in DOMAIN integration |->
                           IF "affectedIssues" \in DOMAIN integration[i]
                           THEN integration[i].affectedIssues ELSE <<>>])
        reorder ==
            IF \E i \in DOMAIN issueRisks : issueRisks[i].category = "breaking_change"
            THEN << [type |-> "reorder",
                     reason |-> issueId \o " has breaking change risk",
                     affectedIssues |-> <<issueId>>,
                     recommendation |-> "Place " \o issueId
                         \o " earlier in wave sequence to allow dependent issues to adapt"] >>
            ELSE <<>>
        addDependency ==
            IF Len(integration) > 0 /\ Len(dependencies) > 0
            THEN << [type |-> "add_dependency",
                     reason |-> issueId \o " has integration dependencies",
                     affectedIssues |-> <<issueId>> \o dependencies,
                     recommendation |-> "Ensure " \o Join(dependencies, ", ")
                         \o " complete before " \o issueId] >>
            ELSE <<>>
    IN reorder \o addDependency

generateWaveAdjustments(rs, iss) ==
    LET keys == KeysInOrder([i \in DOMAIN rs |-> rs[i].issueIdentifier])
        perIssue == FlattenSeq([k \in DOMAIN keys |->
                        AdjustmentsFor(keys[k], FilterBy(rs, "issueIdentifier", keys[k]))])
        buffer == IF calculateRiskScore(rs) > 50
                  THEN << [type |-> "add_buffer",
                           reason |-> "High overall risk score",
                           affectedIssues |-> <<>>,
                           recommendation |-> "Add 20% buffer to token estimates for risk mitigation overhead"] >>
                  ELSE <<>>
    IN perIssue \o buffer

generateSummary(rs, highRisks, adjustments) ==
    IF Len(rs) = 0 THEN "No significant risks identified."
    ELSE
        LET categories == KeysInOrder([i \in DOMAIN rs |-> rs[i].category])
            count(cat) == Cardinality({i \in DOMAIN rs : rs[i].category = cat})
            categoryList ==
                Join([k \in DOMAIN categories |->
                         ToString(count(categories[k])) \o " "
                             \o ReplaceUnderscores(categories[k])], ", ")
            parts ==
                <<"Identified " \o ToString(Len(rs)) \o " risk(s).">>
                \o (IF Len(highRisks) > 0
                    THEN <<ToString(Len(highRisks))
                               \o " high-impact risk(s) require attention.">>
                    ELSE <<>>)
                \o (IF Len(adjustments) > 0
                    THEN <<ToString(Len(adjustments))
                               \o " wave adjustment(s) recommended.">>
                    ELSE <<>>)
                \o <<"Categories: " \o categoryList \o ".">>
        IN Join(parts, " ")

\* r.impact === 'critical' || r.impact === 'high'
highRisksOf(rs) ==
    LET kept == AscendingSeq({i \in DOMAIN rs : rs[i].impact \in {"critical", "high"}})
    IN [k \in DOMAIN kept |-> rs[kept[k]]]

-----------------------------------------------------------------------------
(* Inputs of the calls *)

Label(name) == [name |-> name, color |-> None]

CtxA ==
    [filesLikelyTouched |-> <<FileInfo("src/a.ts", 10)>>, relatedFiles |-> <<>>,
     totalLines |-> 10, avgComplexity |-> "low"]
CtxAB ==
    [filesLikelyTouched |-> <<FileInfo("src/a.ts", 10)>>,
     relatedFiles |-> <<FileInfo("src/b.ts", 25)>>,
     totalLines |-> 10, avgComplexity |-> "medium"]
CtxB ==
    [filesLikelyTouched |-> <<FileInfo("src/b.ts", 25)>>, relatedFiles |-> <<>>,
     totalLines |-> 25, avgComplexity |-> "high"]
CtxBig ==
    [filesLikelyTouched |-> <<FileInfo("src/c.ts", 120), FileInfo("src/d.ts", 60),
                              FileInfo("src/e.ts", 20)>>,
     relatedFiles |-> <<FileInfo("src/a.ts", 10)>>,
     totalLines |-> 200, avgComplexity |-> "medium"]

CtxPlain ==
    [filesLikelyTouched |-> <<>>, relatedFiles |-> <<>>,
     totalLines |-> 200, avgComplexity |-> "medium"]

\* One file listed both as touched and as related.
CtxTwice ==
    [filesLikelyTouched |-> <<FileInfo("src/f.ts", 40)>>,
     relatedFiles |-> <<FileInfo("src/f.ts", 40)>>,
     totalLines |-> 40, avgComplexity |-> "low"]

\* A context of the declared shape whose files lie under api/ and db/.
CtxApi ==
    [filesLikelyTouched |-> <<FileInfo("src/api/client.ts", 30)>>,
     relatedFiles |-> <<FileInfo("src/db/schema.ts", 50)>>,
     totalLines |-> 30, avgComplexity |-> "medium"]

\* The same files in an object that also carries the member RiskPredictor
\* reads; CodebaseContext does not declare it, a caller's object may have it.
CtxWithFilePaths ==
    [filesLikelyTouched |-> <<FileInfo("src/api/client.ts", 30)>>,
     relatedFiles |-> <<FileInfo("src/db/schema.ts", 50)>>,
     totalLines |-> 30, avgComplexity |-> "medium",
     filePaths |-> <<"src/api/client.ts", "src/db/schema.ts">>]

\* A description of exactly n characters that starts with text.
Filler ==
    LET w == " with more notes"
        w4 == w \o w \o w \o w
    IN w4 \o w4 \o w4 \o w4

Pad(text, n) == text \o SubSeq(Filler, 1, n - Len(text))

\* What one input issue looks like: parentRel places the parent relative to
\* the issue's position in the list; an absent description is "".
IssueProfiles ==
    { [priority |-> "P2-Medium", parentRel |-> "none", ctx |-> NoContext,
       title |-> "Tidy the changelog", description |-> "",
       labels |-> <<>>, estimate |-> NoEstimate],
      [priority |-> "P0-Critical", parentRel |-> "none", ctx |-> CtxA,
       title |-> "Rotate the signing keys",
       description |-> Pad("The signing keys are a year old", 60),
       labels |-> <<Label("security")>>, estimate |-> 3],
      [priority |-> "P1-High", parentRel |-> "prev", ctx |-> CtxAB,
       title |-> "Add the export endpoint",
       description |-> Pad("Customers ask for a CSV export", 201),
       labels |-> <<Label("api"), Label("backend")>>, estimate |-> 0],
      [priority |-> "P3-Low", parentRel |-> "next", ctx |-> CtxB,
       title |-> "Shorten the retry delay",
       description |-> Pad("The delay is too long", 50),
       labels |-> <<>>, estimate |-> NoEstimate],
      [priority |-> "P2-Medium", parentRel |-> "prev", ctx |-> CtxBig,
       title |-> "Rework the settings page",
       description |-> Pad("The settings page grew by accretion", 250),
       labels |-> <<Label("ui"), Label("frontend")>>, estimate |-> 5],
      [priority |-> "P1-High", parentRel |-> "outside", ctx |-> NoContext,
       title |-> "Write the onboarding notes",
       description |-> Pad("New joiners need a map", 200),
       labels |-> <<Label("docs")>>, estimate |-> 1],
      [priority |-> "P0-Critical", parentRel |-> "next", ctx |-> NoContext,
       title |-> "Stop the crash at boot", description |-> Pad("Boot fails", 10),
       labels |-> <<>>, estimate |-> NoEstimate],
      [priority |-> "P3-Low", parentRel |-> "none", ctx |-> CtxAB,
       title |-> "Cover the parser",
       description |-> Pad("The parser has no checks at all", 120),
       labels |-> <<Label("test"), Label("qa")>>, estimate |-> 2] }

\* Inputs of TokenEstimator: the above, an issue whose context names a
\* size but no file, and one whose context lists a file twice.
EstimatorProfiles ==
    IssueProfiles \cup
    { [priority |-> "P1-High", parentRel |-> "none", ctx |-> CtxPlain,
       title |-> "Draft the importer", description |-> Pad("Start small", 30),
       labels |-> <<>>, estimate |-> NoEstimate],
      [priority |-> "P2-Medium", parentRel |-> "none", ctx |-> CtxTwice,
       title |-> "Split the formatter", description |-> Pad("One file", 20),
       labels |-> <<>>, estimate |-> NoEstimate] }

\* Inputs of RiskPredictor.analyze: texts that match all eight patterns, four
\* of them, two of them by description only, none; issues with labels.
RiskProfiles ==
    { [priority |-> "P3-Low", parentRel |-> "none", ctx |-> NoContext,
       title |-> "Update readme", description |-> "",
       labels |-> <<>>, estimate |-> NoEstimate],
      [priority |-> "P0-Critical", parentRel |-> "none", ctx |-> CtxA,
       title |-> "Refactor API: depends on auth data cache, limit urgent",
       description |-> "", labels |-> <<>>, estimate |-> 3],
      [priority |-> "P1-High", parentRel |-> "prev", ctx |-> CtxAB,
       title |-> "Refactor auth API cache", description |-> "",
       labels |-> <<>>, estimate |-> NoEstimate],
      [priority |-> "P2-Medium", parentRel |-> "next", ctx |-> NoContext,
       title |-> "Tune worker pool",
       description |-> "Calls remote service after the import is done",
       labels |-> <<>>, estimate |-> 1],
      [priority |-> "P2-Medium", parentRel |-> "none", ctx |-> CtxB,
       title |-> "Fix login", description |-> "Users are logged out",
       labels |-> <<Label("bug")>>, estimate |-> NoEstimate],
      [priority |-> "P1-High", parentRel |-> "none", ctx |-> NoContext,
       title |-> "Rename field", description |-> "",
       labels |-> <<Label("depends:ISS-1"), Label("backend")>>,
       estimate |-> 2] }

\* Inputs for the agent assignment: a security label with a frontend word in
\* the text, backend labels and words around one frontend match, no signal,
\* and one issue each that only a later test accepts.
AgentProfiles ==
    { [priority |-> "P0-Critical", parentRel |-> "none", ctx |-> CtxAB,
       title |-> "Rotate the signing keys",
       description |-> "Used by the login component",
       labels |-> <<Label("security")>>, estimate |-> 3],
      [priority |-> "P1-High", parentRel |-> "prev", ctx |-> CtxA,
       title |-> "Add the export endpoint",
       description |-> "Built by the REST server",
       labels |-> <<Label("api"), Label("backend")>>, estimate |-> NoEstimate],
      [priority |-> "P3-Low", parentRel |-> "next", ctx |-> CtxB,
       title |-> "Shorten the retry delay",
       description |-> "The delay is too long",
       labels |-> <<>>, estimate |-> NoEstimate],
      [priority |-> "P2-Medium", parentRel |-> "none", ctx |-> NoContext,
       title |-> "Move the deploy pipeline",
       description |-> "Docker image is stale",
       labels |-> <<>>, estimate |-> 2],
      [priority |-> "P2-Medium", parentRel |-> "none", ctx |-> NoContext,
       title |-> "Write the README", description |-> "",
       labels |-> <<Label("Docs")>>, estimate |-> 1],
      [priority |-> "P1-High", parentRel |-> "outside", ctx |-> NoContext,
       title |-> "Investigate flaky login", description |-> "Seen twice",
       labels |-> <<>>, estimate |-> NoEstimate],
      [priority |-> "P3-Low", parentRel |-> "none", ctx |-> CtxAB,
       title |-> "Cover the parser", description |-> "It has no checks",
       labels |-> <<Label("test"), Label("qa")>>, estimate |-> 2] }

\* Inputs for the per-issue pattern matching: files under api/ and db/ with a
\* plain title; the same files in filePaths with a priority string outside
\* Priority, as an untyped caller can pass it; one keyword; a keyword and a
\* description pattern on an object that carries parentId; a label, the priority string 'critical' and a keyword
\* with a description pattern of external_dependency.
PatternProfiles ==
    { [priority |-> "P2-Medium", parentRel |-> "none", ctx |-> CtxApi,
       title |-> "Tidy the client", description |-> "",
       labels |-> <<>>, estimate |-> 1],
      [priority |-> "urgent", parentRel |-> "none", ctx |-> CtxWithFilePaths,
       title |-> "Call the OAuth API", description |-> "",
       labels |-> <<>>, estimate |-> NoEstimate],
      [priority |-> "P0-Critical", parentRel |-> "next", ctx |-> NoContext,
       title |-> "New schema", description |-> "",
       labels |-> <<>>, estimate |-> 3],
      [priority |-> "P3-Low", parentRel |-> "prev", ctx |-> CtxWithFilePaths,
       title |-> "Refactor auth", description |-> "",
       labels |-> <<>>, estimate |-> NoEstimate, carriesParentId |-> TRUE],
      [priority |-> "critical", parentRel |-> "none", ctx |-> NoContext,
       title |-> "Slow login", description |-> "Uses the Stripe webhook",
       labels |-> <<Label("bug")>>, estimate |-> 2] }

ParentOf(rel, i, n) ==
    CASE rel = "none" -> NoParent
      [] rel = "prev" -> IF i > 1 THEN i - 1 ELSE NoParent
      [] rel = "next" -> IF i < n THEN i + 1 ELSE NoParent
      [] rel = "outside" -> n + 1

\* An Issue; a profile marked carriesParentId gives an object that has the
\* parent's id in a member parentId as well, which Issue does not declare.
MkIssue(i, n, prof) ==
    LET issue == [id |-> i, identifier |-> "ISS-" \o ToString(i),
                  title |-> prof.title, description |-> prof.description,
                  priority |-> prof.priority,
                  parent |-> ParentOf(prof.parentRel, i, n),
                  labels |-> prof.labels, estimate |-> prof.estimate]
    IN IF "carriesParentId" \in DOMAIN prof
       THEN issue @@ [parentId |-> issue.parent]
       ELSE issue

\* Issues form a forest under `parent`.
Acyclic(iss) ==
    \A i, j \in DOMAIN iss : ~(iss[i].parent = iss[j].id /\ iss[j].parent = iss[i].id)

OrganizerConfigs ==
    { DEFAULT_ORGANIZER_CONFIG,
      [similarityThreshold |-> <<3, 10>>, maxIssuesPerWave |-> 2,
       tokenBudgetPerWave |-> 100000, respectDependencies |-> TRUE],
      [similarityThreshold |-> <<1, 1>>, maxIssuesPerWave |-> 1,
       tokenBudgetPerWave |-> 150000, respectDependencies |-> FALSE],
      [similarityThreshold |-> <<0, 1>>, maxIssuesPerWave |-> 5,
       tokenBudgetPerWave |-> 100000, respectDependencies |-> TRUE] }

NoResult == <<>>

InputIs(profs) ==
    LET n == Len(profs)
    IN /\ issues = [i \in 1..n |-> MkIssue(i, n, profs[i])]
       /\ contexts = [i \in 1..(MaxIssues + 1) |->
                         IF i <= n THEN profs[i].ctx ELSE NoContext]

InputFrom(pool) ==
    /\ \E n \in 0..MaxIssues : \E profs \in [1..n -> pool] : InputIs(profs)
    /\ Acyclic(issues)

\* No entry point has run yet.
NothingRun ==
    /\ pc = "start"
    /\ overlapMatrix = NoResult
    /\ groups = NoResult
    /\ orderedGroups = NoResult
    /\ waves = NoResult
    /\ est = NoResult
    /\ waveEst = NoResult
    /\ risks = <<>>
    /\ riskIdCounter = 1
    /\ analysed = 0
    /\ analysis = NoResult

Init ==
    /\ InputFrom(IssueProfiles)
    /\ config \in OrganizerConfigs
    /\ NothingRun
    /\ scoreCall = NoResult
    /\ earlier = NoResult

-----------------------------------------------------------------------------
(* WaveOrganizer.organize, one action per statement *)

\* if (issues.length === 0) return [];
OrganizeEmpty ==
    /\ pc = "start"
    /\ Len(issues) = 0
    /\ waves' = <<>>
    /\ pc' = "done"
    /\ UNCHANGED <<earlier, issues, contexts, config, overlapMatrix, groups, orderedGroups,
                   est, waveEst>>
    /\ UNCHANGED predictorVars

CalculateOverlapMatrix ==
    /\ pc = "start"
    /\ Len(issues) # 0
    /\ overlapMatrix' = calculateOverlapMatrix(issues, contexts)
    /\ pc' = "matrix"
    /\ UNCHANGED <<earlier, issues, contexts, config, groups, orderedGroups, waves, est,
                   waveEst>>
    /\ UNCHANGED predictorVars

GroupByContext ==
    /\ pc = "matrix"
    /\ groups' = groupByContext(issues, overlapMatrix, config)
    /\ pc' = "grouped"
    /\ UNCHANGED <<earlier, issues, contexts, config, overlapMatrix, orderedGroups, waves,
                   est, waveEst>>
    /\ UNCHANGED predictorVars

OrderByDependencies ==
    /\ pc = "grouped"
    /\ orderedGroups' = IF config.respectDependencies
                        THEN orderByDependencies(groups, issues)
                        ELSE groups
    /\ pc' = "ordered"
    /\ UNCHANGED <<earlier, issues, contexts, config, overlapMatrix, groups, waves, est,
                   waveEst>>
    /\ UNCHANGED predictorVars

GroupsToWaves ==
    /\ pc = "ordered"
    /\ waves' = groupsToWaves(orderedGroups, contexts, config)
    /\ pc' = "waves"
    /\ UNCHANGED <<earlier, issues, contexts, config, overlapMatrix, groups, orderedGroups,
                   est, waveEst>>
    /\ UNCHANGED predictorVars

\* return waves.map(wave => ({...wave, agents: this.assignAgents(wave.issues)}))
AssignAgents ==
    /\ pc = "waves"
    /\ waves' = [w \in DOMAIN waves |->
                    [number |-> waves[w].number,
                     issues |-> waves[w].issues,
                     tokenEstimate |-> waves[w].tokenEstimate,
                     dependencies |-> waves[w].dependencies,
                     parallelizable |-> waves[w].parallelizable,
                     agents |-> assignAgents(waves[w].issues)]]
    /\ pc' = "done"
    /\ UNCHANGED <<earlier, issues, contexts, config, overlapMatrix, groups, orderedGroups,
                   est, waveEst>>
    /\ UNCHANGED predictorVars

Next ==
    \/ OrganizeEmpty
    \/ CalculateOverlapMatrix
    \/ GroupByContext
    \/ OrderByDependencies
    \/ GroupsToWaves
    \/ AssignAgents

Spec == Init /\ [][Next]_vars

\* organize on issues whose labels and texts carry the agent signals
InitAgents ==
    /\ InputFrom(AgentProfiles)
    /\ config = DEFAULT_ORGANIZER_CONFIG
    /\ NothingRun
    /\ scoreCall = NoResult
    /\ earlier = NoResult

SpecAgents == InitAgents /\ [][Next]_vars

-----------------------------------------------------------------------------
(* TokenEstimator called directly *)

InitEst ==
    /\ InputFrom(EstimatorProfiles)
    /\ config = DEFAULT_ORGANIZER_CONFIG
    /\ NothingRun
    /\ scoreCall = NoResult
    /\ earlier = NoResult

\* contexts.get(issue.id) || the default context, as every caller passes it
ContextFor(issue) ==
    IF contexts[issue.id] = NoContext THEN createEmptyContext ELSE contexts[issue.id]

Estimate ==
    /\ est = NoResult
    /\ \E i \in DOMAIN issues :
           est' = [issue |-> issues[i], context |-> ContextFor(issues[i]),
                   result |-> estimate(issues[i], ContextFor(issues[i]))]
    /\ UNCHANGED <<earlier, issues, contexts, config, pc, overlapMatrix, groups,
                   orderedGroups, waves, waveEst>>
    /\ UNCHANGED predictorVars

EstimateWave ==
    /\ waveEst = NoResult
    /\ \E lo \in 1..(Len(issues) + 1) : \E hi \in (lo - 1)..Len(issues) :
           LET sub == SubSeq(issues, lo, hi)
           IN waveEst' = [issues |-> sub, result |-> estimateWave(sub, contexts)]
    /\ UNCHANGED <<earlier, issues, contexts, config, pc, overlapMatrix, groups,
                   orderedGroups, waves, est>>
    /\ UNCHANGED predictorVars

NextEst ==
    \/ Estimate
    \/ EstimateWave

SpecEst == InitEst /\ [][NextEst]_vars

-----------------------------------------------------------------------------
(* RiskPredictor.analyze, one action per statement *)

InitRisk ==
    /\ InputFrom(RiskProfiles)
    /\ config = DEFAULT_ORGANIZER_CONFIG
    /\ NothingRun
    /\ scoreCall = NoResult
    /\ earlier = NoResult

\* One turn of `for (const issue of issues)`
AnalyzeIssue ==
    /\ pc \in {"start", "perIssue"}
    /\ analysed < Len(issues)
    /\ LET issue == issues[analysed + 1]
           issueRisks == analyzeIssue(issue, contexts[issue.id], riskIdCounter)
       IN /\ risks' = risks \o issueRisks
          /\ riskIdCounter' = riskIdCounter + Len(issueRisks)
    /\ analysed' = analysed + 1
    /\ pc' = "perIssue"
    /\ UNCHANGED <<earlier, issues, contexts, config, overlapMatrix, groups, orderedGroups,
                   waves, est, waveEst, analysis, scoreCall>>

\* risks.push(...this.analyzeIntegrationRisks(issues, riskIdCounter))
AnalyzeIntegrationRisks ==
    /\ pc \in {"start", "perIssue"}
    /\ analysed = Len(issues)
    /\ LET integrationRisks == analyzeIntegrationRisks(issues, riskIdCounter)
       IN /\ ~integrationRisks.threw
          /\ risks' = risks \o integrationRisks.risks
    /\ pc' = "integration"
    /\ UNCHANGED <<earlier, issues, contexts, config, overlapMatrix, groups, orderedGroups,
                   waves, est, waveEst, riskIdCounter, analysed, analysis,
                   scoreCall>>

\* The TypeError of analyzeIntegrationRisks leaves analyze: nothing is returned.
AnalyzeIntegrationRisksThrows ==
    /\ pc \in {"start", "perIssue"}
    /\ analysed = Len(issues)
    /\ analyzeIntegrationRisks(issues, riskIdCounter).threw
    /\ pc' = "threw"
    /\ UNCHANGED <<earlier, issues, contexts, config, overlapMatrix, groups, orderedGroups,
                   waves, est, waveEst, risks, riskIdCounter, analysed, analysis,
                   scoreCall>>

\* The score, the high risks, the adjustments, the summary, and the return
AnalyzeReturn ==
    /\ pc = "integration"
    /\ LET totalRiskScore == calculateRiskScore(risks)
           highRisks == highRisksOf(risks)
           waveAdjustments == generateWaveAdjustments(risks, issues)
       IN analysis' = [risks |-> risks,
                       totalRiskScore |-> totalRiskScore,
                       highRisks |-> highRisks,
                       waveAdjustments |-> waveAdjustments,
                       summary |-> generateSummary(risks, highRisks, waveAdjustments)]
    /\ pc' = "done"
    /\ UNCHANGED <<earlier, issues, contexts, config, overlapMatrix, groups, orderedGroups,
                   waves, est, waveEst, risks, riskIdCounter, analysed, scoreCall>>

NextRisk ==
    \/ AnalyzeIssue
    \/ AnalyzeIntegrationRisks
    \/ AnalyzeIntegrationRisksThrows
    \/ AnalyzeReturn

SpecRisk == InitRisk /\ [][NextRisk]_vars

\* analyze on issues built for the pattern matching
InitPatterns ==
    /\ InputFrom(PatternProfiles)
    /\ config = DEFAULT_ORGANIZER_CONFIG
    /\ NothingRun
    /\ scoreCall = NoResult
    /\ earlier = NoResult

SpecPatterns == InitPatterns /\ [][NextRisk]_vars

-----------------------------------------------------------------------------
(* RiskPredictor.calculateRiskScore on a list that grows by one risk *)

RiskOf(impact, likelihood) ==
    [id |-> "RISK-0", category |-> "security", issueId |-> 1,
     issueIdentifier |-> "ISS-1", description |-> "", likelihood |-> likelihood,
     impact |-> impact, mitigation |-> ""]

InitScore ==
    /\ issues = <<>>
    /\ contexts = [i \in 1..(MaxIssues + 1) |-> NoContext]
    /\ config = DEFAULT_ORGANIZER_CONFIG
    /\ NothingRun
    /\ earlier = NoResult
    /\ \E k \in 0..MaxBase :
           LET base == [i \in 1..k |-> RiskOf("critical", "high")]
           IN scoreCall = [risks |-> base, added |-> 0,
                           previous |-> calculateRiskScore(base),
                           score |-> calculateRiskScore(base)]

AddRisk ==
    /\ scoreCall.added < MaxAdded
    /\ \E impact \in RiskImpacts : \E likelihood \in RiskLikelihoods :
           LET longer == Append(scoreCall.risks, RiskOf(impact, likelihood))
           IN scoreCall' = [risks |-> longer, added |-> scoreCall.added + 1,
                            previous |-> scoreCall.score,
                            score |-> calculateRiskScore(longer)]
    /\ UNCHANGED <<earlier, issues, contexts, config, pc, overlapMatrix, groups,
                   orderedGroups, waves, est, waveEst, risks, riskIdCounter,
                   analysed, analysis>>

NextScore == AddRisk

SpecScore == InitScore /\ [][NextScore]_vars

-----------------------------------------------------------------------------
(* Calls one after the other on the same organizer, estimator and predictor *)

\* Inputs of the repeated calls: an issue that matches every risk pattern, one
\* that matches by its description, one with a label.
CallProfiles ==
    {p \in RiskProfiles :
        p.title \in {"Refactor API: depends on auth data cache, limit urgent",
                     "Tune worker pool", "Fix login"}}

InitCalls ==
    /\ InputFrom(CallProfiles)
    /\ config = DEFAULT_ORGANIZER_CONFIG
    /\ NothingRun
    /\ scoreCall = NoResult
    /\ earlier = NoResult

\* The call that has just returned or thrown: entry point, arguments, outcome.
CurrentCall ==
    IF est # NoResult
    THEN [op |-> "estimate", args |-> <<est.issue, est.context>>,
          result |-> est.result]
    ELSE IF waveEst # NoResult
    THEN [op |-> "estimateWave", args |-> <<waveEst.issues, contexts>>,
          result |-> waveEst.result]
    ELSE IF pc = "threw"
    THEN [op |-> "analyze", args |-> <<issues, contexts>>,
          result |-> [threw |-> "TypeError"]]
    ELSE IF pc = "done" /\ analysis # NoResult
    THEN [op |-> "analyze", args |-> <<issues, contexts>>, result |-> analysis]
    ELSE IF pc = "done"
    THEN [op |-> "organize", args |-> <<issues, contexts>>, result |-> waves]
    ELSE NoResult

NoCallRunning == pc = "start" /\ est = NoResult /\ waveEst = NoResult

\* analyze with its counter kept from the call before
riskIdCounterAtEntry_Kept(previous) == previous

\* let riskIdCounter = 1;
riskIdCounterAtEntry(previous) == 1

\* The call is over and its locals are gone; the next call declares its own.
\* The caller may keep what the call returned.
CallReturns ==
    /\ CurrentCall # NoResult
    /\ \E keep \in BOOLEAN : earlier' = IF keep THEN CurrentCall ELSE earlier
    /\ pc' = "start"
    /\ overlapMatrix' = NoResult
    /\ groups' = NoResult
    /\ orderedGroups' = NoResult
    /\ waves' = NoResult
    /\ est' = NoResult
    /\ waveEst' = NoResult
    /\ risks' = <<>>
    /\ riskIdCounter' = riskIdCounterAtEntry(riskIdCounter)
    /\ analysed' = 0
    /\ analysis' = NoResult
    /\ UNCHANGED <<issues, contexts, config, scoreCall>>

NextCalls ==
    \/ NoCallRunning /\ OrganizeEmpty
    \/ NoCallRunning /\ CalculateOverlapMatrix
    \/ GroupByContext
    \/ OrderByDependencies
    \/ GroupsToWaves
    \/ AssignAgents
    \/ NoCallRunning /\ Estimate
    \/ NoCallRunning /\ EstimateWave
    \/ (pc = "start" => NoCallRunning) /\ AnalyzeIssue
    \/ (pc = "start" => NoCallRunning) /\ AnalyzeIntegrationRisks
    \/ (pc = "start" => NoCallRunning) /\ AnalyzeIntegrationRisksThrows
    \/ AnalyzeReturn
    \/ CallReturns

SpecCalls == InitCalls /\ [][NextCalls]_vars

-----------------------------------------------------------------------------
(* Properties of organize *)

Returned == pc \in {"waves", "done"} /\ Len(issues) > 0

\* The places <<wave, position>> at which the issue with this id is listed.
PlacesOf(id) ==
    {p \in {<<w, k>> : w \in DOMAIN waves, k \in 1..MaxIssues} :
        p[2] \in DOMAIN waves[p[1]].issues /\ waves[p[1]].issues[p[2]].id = id}

SomeGroupWasSplit == Len(waves) > Len(orderedGroups)

\* C1: the waves returned by organize partition the input: every input issue
\* is listed in exactly one wave, exactly once, and every listed issue is an
\* input issue.
C1_WavesPartitionInput ==
    Returned =>
        /\ \A i \in DOMAIN issues : Cardinality(PlacesOf(issues[i].id)) = 1
        /\ \A w \in DOMAIN waves : \A k \in DOMAIN waves[w].issues :
               waves[w].issues[k] \in Range(issues)

C1_Witness ==
    /\ pc = "done"
    /\ Len(issues) = MaxIssues
    /\ SomeGroupWasSplit
    /\ \E w \in DOMAIN waves : Len(waves[w].issues) >= 2
    /\ \E g \in DOMAIN groups : Len(groups[g].issues) >= 2

\* C2: the wave at position k of the returned list has number k, also when
\* groups were split into several sub-groups.
C2_WaveNumbersContiguous ==
    Returned => \A k \in DOMAIN waves : waves[k].number = k

C2_Witness ==
    /\ pc = "done"
    /\ Len(waves) >= 3
    /\ SomeGroupWasSplit
    /\ Len(orderedGroups) >= 2

\* C3: with dependency ordering enabled, every dependency of a returned wave
\* is the number of a wave of the result and is smaller than the wave's own
\* number.
C3_DependenciesPointBack ==
    (Returned /\ config.respectDependencies) =>
        \A w \in DOMAIN waves : \A d \in Range(waves[w].dependencies) :
            /\ d < waves[w].number
            /\ \E v \in DOMAIN waves : waves[v].number = d

C3_Witness ==
    /\ pc = "done"
    /\ config.respectDependencies
    /\ \E w \in DOMAIN waves : Len(waves[w].dependencies) >= 1
    /\ \E w \in DOMAIN waves : ~waves[w].parallelizable

\* C16: every returned wave has at least one issue and at most
\* maxIssuesPerWave issues, when maxIssuesPerWave >= 1.
C16_WaveSizeWithinCap ==
    (Returned /\ config.maxIssuesPerWave >= 1) =>
        \A w \in DOMAIN waves :
            /\ Len(waves[w].issues) >= 1
            /\ Len(waves[w].issues) <= config.maxIssuesPerWave

\* A group larger than the cap was cut, and one wave is exactly full.
C16_Witness ==
    /\ pc = "done"
    /\ \E g \in DOMAIN orderedGroups :
           Len(orderedGroups[g].issues) > config.maxIssuesPerWave
    /\ \E w \in DOMAIN waves :
           Len(waves[w].issues) = config.maxIssuesPerWave
    /\ \E w \in DOMAIN waves :
           Len(waves[w].issues) < config.maxIssuesPerWave

\* The issue with this id comes before the other in stable priority order:
\* P0 first, equal priorities in input order.
VisitedBefore(x, y) ==
    LET at(id) == CHOOSE i \in DOMAIN issues : issues[i].id = id
        rank(id) == CASE issues[at(id)].priority = "P0-Critical" -> 0
                      [] issues[at(id)].priority = "P1-High" -> 1
                      [] issues[at(id)].priority = "P2-Medium" -> 2
                      [] issues[at(id)].priority = "P3-Low" -> 3
    IN \/ rank(x) < rank(y)
       \/ rank(x) = rank(y) /\ at(x) < at(y)

GroupIds(g) == {groups[g].issues[k].id : k \in DOMAIN groups[g].issues}

\* C17: the groups are a greedy cover made in one pass over the issues in
\* stable priority order: the seed of each group is the first issue, in that
\* order, that no earlier group holds, and the group is the seed plus exactly
\* the issues no earlier group holds whose similarity to the seed is >=
\* similarityThreshold, in that order; every issue is in exactly one group.
C17_GreedyCoverInPriorityOrder ==
    groups # NoResult =>
        /\ UNION {GroupIds(g) : g \in DOMAIN groups}
               = {issues[i].id : i \in DOMAIN issues}
        /\ \A g \in DOMAIN groups :
               LET taken == UNION {GroupIds(h) : h \in 1..(g - 1)}
                   free == {issues[i].id : i \in DOMAIN issues} \ taken
                   seed == CHOOSE x \in free :
                               \A y \in free \ {x} : VisitedBefore(x, y)
                   members == groups[g].issues
               IN /\ free # {}
                  /\ GroupIds(g) =
                         {x \in free :
                             \/ x = seed
                             \/ RatGE(overlapMatrix[seed][x],
                                      config.similarityThreshold)}
                  /\ members[1].id = seed
                  /\ \A k \in 1..(Len(members) - 1) :
                         VisitedBefore(members[k].id, members[k + 1].id)

\* A seed with two members that are not similar to each other.
C17_Witness ==
    /\ groups # NoResult
    /\ \E k, m \in DOMAIN groups[1].issues :
           /\ k > 1
           /\ m > k
           /\ ~RatGE(overlapMatrix[groups[1].issues[k].id][groups[1].issues[m].id],
                     config.similarityThreshold)

\* Some issue of group g has its parent in group h.
HasParentIn(g, h) ==
    \E k \in DOMAIN groups[g].issues :
        /\ groups[g].issues[k].parent # NoParent
        /\ groups[g].issues[k].parent \in GroupIds(h)

\* The waves made from group g.
WavesOf(g) == {w \in DOMAIN waves : waves[w].issues[1].id \in GroupIds(g)}

\* C18: with respectDependencies, when some issue of group A has its parent
\* in another group B, every wave made from A has a larger number than every
\* wave made from B.
C18_ChildClusterAfterParentCluster ==
    (Returned /\ config.respectDependencies) =>
        \A a, b \in DOMAIN groups :
            (a # b /\ HasParentIn(a, b)) =>
                \A wa \in WavesOf(a) : \A wb \in WavesOf(b) :
                    waves[wa].number > waves[wb].number

\* The waves made from the g-th group in emission order, as wave indexes.
RunsOf(g) ==
    {w \in DOMAIN waves :
        \E k \in DOMAIN orderedGroups[g].issues :
            orderedGroups[g].issues[k].id = waves[w].issues[1].id}

\* The positions of the g-th group's issue list at which a wave starts.
RunStarts(g) ==
    {k \in DOMAIN orderedGroups[g].issues :
        \E w \in RunsOf(g) : waves[w].issues[1].id = orderedGroups[g].issues[k].id}

\* The waves of the g-th group are consecutive and list its issues in order.
RunsConcatenate(g) ==
    LET L == orderedGroups[g].issues
        first == CHOOSE w \in RunsOf(g) : \A v \in RunsOf(g) : w <= v
        n == Cardinality(RunsOf(g))
    IN /\ RunsOf(g) = first..(first + n - 1)
       /\ FlattenSeq([r \in 1..n |-> waves[first + r - 1].issues]) = L

\* The group passes the test that leaves it whole.
WithinCapAndBudget(g) ==
    /\ Len(orderedGroups[g].issues) <= config.maxIssuesPerWave
    /\ estimateWave(orderedGroups[g].issues, contexts).total
           <= config.tokenBudgetPerWave

\* The cut rule at position k >= 2 of the g-th group: the run that holds
\* position k - 1 is full, or its individually estimated totals plus that of
\* the issue at k exceed the budget.
CutBefore(g, k) ==
    LET L == orderedGroups[g].issues
        start == CHOOSE j \in RunStarts(g) :
                     j < k /\ \A i \in RunStarts(g) : i < k => i <= j
        total(j) == estimate(L[j], ContextFor(L[j])).total
    IN \/ k - start >= config.maxIssuesPerWave
       \/ SumSeq([j \in 1..(k - start) |-> total(start + j - 1)]) + total(k)
              > config.tokenBudgetPerWave

\* In every group split by the rule, a wave starts at a position exactly
\* when the rule cuts there.
CutsFollowRule(g) ==
    /\ RunsConcatenate(g)
    /\ 1 \in RunStarts(g)
    /\ \A k \in 2..Len(orderedGroups[g].issues) :
           k \in RunStarts(g) <=> CutBefore(g, k)

\* C19 as stated: a group becomes a single wave iff its issue count is
\* <= maxIssuesPerWave and its estimateWave total is <= tokenBudgetPerWave;
\* otherwise it is cut into consecutive runs in its own order, a new run
\* starting before an issue exactly when the current run holds
\* maxIssuesPerWave issues or the individually estimated totals of the current
\* run plus that issue exceed tokenBudgetPerWave.
C19_SingleWaveIffWithinCapAndBudget ==
    Returned =>
        \A g \in DOMAIN orderedGroups :
            /\ Cardinality(RunsOf(g)) = 1 <=> WithinCapAndBudget(g)
            /\ RunsConcatenate(g)
            /\ ~WithinCapAndBudget(g) => CutsFollowRule(g)

\* C19 amended: with maxIssuesPerWave >= 1, a group within the cap and the
\* budget becomes a single wave; any other group is cut by the rule, which
\* leaves a group of one issue in one wave and cuts every other such group at
\* least once.
C19_GreedyCut ==
    (Returned /\ config.maxIssuesPerWave >= 1) =>
        \A g \in DOMAIN orderedGroups :
            /\ RunsConcatenate(g)
            /\ WithinCapAndBudget(g) => Cardinality(RunsOf(g)) = 1
            /\ ~WithinCapAndBudget(g) => CutsFollowRule(g)
            /\ Cardinality(RunsOf(g)) = 1 <=>
                   (WithinCapAndBudget(g) \/ Len(orderedGroups[g].issues) = 1)

\* A group cut into two waves, and a group of one issue that alone exceeds
\* the budget.
C19_Witness ==
    /\ pc = "done"
    /\ \E g \in DOMAIN orderedGroups :
           /\ Len(orderedGroups[g].issues) = 2
           /\ RunStarts(g) = {1, 2}
    /\ \E g \in DOMAIN orderedGroups :
           /\ Len(orderedGroups[g].issues) = 1
           /\ ~WithinCapAndBudget(g)

\* The ids of the issues of wave w.
WaveIds(w) == {waves[w].issues[k].id : k \in DOMAIN waves[w].issues}

\* The parents of the issues of wave w.
WaveParents(w) ==
    {waves[w].issues[k].parent : k \in DOMAIN waves[w].issues} \ {NoParent}

\* C20: the dependencies of a returned wave W are exactly the numbers of the
\* waves emitted before W that hold the parent of an issue of W, ascending
\* and without duplicates; a parent in W, in a later wave or outside the
\* input adds nothing.
C20_DependenciesAreEarlierParentWaves ==
    Returned =>
        \A w \in DOMAIN waves :
            LET deps == waves[w].dependencies
            IN /\ Range(deps) =
                      {waves[v].number : v \in
                          {v \in 1..(w - 1) : WaveParents(w) \cap WaveIds(v) # {}}}
               /\ \A k \in 1..(Len(deps) - 1) : deps[k] < deps[k + 1]

\* A wave of two issues that depends on an earlier wave through its second
\* issue, and a parent that lies in no earlier wave.
C20_Witness ==
    /\ pc = "done"
    /\ \E w \in DOMAIN waves :
           /\ Len(waves[w].issues) = 2
           /\ Len(waves[w].dependencies) = 1
           /\ waves[w].issues[1].parent \notin
                  UNION {WaveIds(v) : v \in 1..(w - 1)}
    /\ \E w \in DOMAIN waves :
           WaveParents(w) \ UNION {WaveIds(v) : v \in 1..(w - 1)} # {}

\* C21: a returned wave has parallelizable = FALSE exactly when one of its
\* issues has a parent whose id is the id of an issue of the same wave;
\* otherwise parallelizable is TRUE.
C21_ParallelizableIffNoInnerParent ==
    Returned =>
        \A w \in DOMAIN waves :
            /\ waves[w].parallelizable \in BOOLEAN
            /\ waves[w].parallelizable = FALSE
                   <=> \E a, b \in DOMAIN waves[w].issues :
                           /\ waves[w].issues[a].parent # NoParent
                           /\ waves[w].issues[a].parent = waves[w].issues[b].id

\* A wave holds a child after its parent, which is the first of the wave.
C21_Witness ==
    /\ pc = "done"
    /\ \E w \in DOMAIN waves :
           /\ ~waves[w].parallelizable
           /\ \E a \in 2..Len(waves[w].issues) :
                  waves[w].issues[a].parent = waves[w].issues[1].id
           /\ waves[w].issues[1].parent \notin WaveIds(w)

\* C29: with maxIssuesPerWave >= 1, a returned wave whose tokenEstimate.total
\* exceeds tokenBudgetPerWave holds exactly one issue; a wave of two or more
\* issues is within the budget.
C29_OverBudgetWaveIsSingleIssue ==
    (Returned /\ config.maxIssuesPerWave >= 1) =>
        \A w \in DOMAIN waves :
            /\ waves[w].tokenEstimate.total > config.tokenBudgetPerWave
                   => Len(waves[w].issues) = 1
            /\ Len(waves[w].issues) >= 2
                   => waves[w].tokenEstimate.total <= config.tokenBudgetPerWave

\* A cluster over the budget was cut into a wave of two issues within the
\* budget and a wave of one issue above it.
C29_Witness ==
    /\ pc = "done"
    /\ SomeGroupWasSplit
    /\ \E w \in DOMAIN waves :
           /\ Len(waves[w].issues) >= 2
           /\ waves[w].tokenEstimate.total <= config.tokenBudgetPerWave
    /\ \E w \in DOMAIN waves :
           /\ Len(waves[w].issues) = 1
           /\ waves[w].tokenEstimate.total > config.tokenBudgetPerWave

\* C7: the overlap matrix is symmetric and within [0, 1] on distinct issues,
\* 0 for two issues without context files, and 1 on every self-pair.
C7_OverlapSymmetricBounded ==
    pc \in {"matrix", "grouped", "ordered", "waves", "done"} /\ Len(issues) > 0 =>
        \A i, j \in DOMAIN issues :
            LET a == issues[i].id
                b == issues[j].id
                m == overlapMatrix[a][b]
            IN IF i = j THEN m = RatOne
               ELSE /\ m[2] > 0
                    /\ RatEq(m, overlapMatrix[b][a])
                    /\ RatGE(m, RatZero)
                    /\ RatGE(RatOne, m)
                    /\ (getFilesForIssue(issues[i], contexts) = {}
                        /\ getFilesForIssue(issues[j], contexts) = {})
                           => RatEq(m, RatZero)

C7_Witness ==
    /\ pc = "matrix"
    /\ \E i, j \in DOMAIN issues :
           /\ i # j
           /\ overlapMatrix[issues[i].id][issues[j].id] = <<1, 2>>
           /\ overlapMatrix[issues[j].id][issues[i].id] = <<1, 2>>
    /\ \E i, j \in DOMAIN issues :
           /\ i # j
           /\ getFilesForIssue(issues[i], contexts) = {}
           /\ getFilesForIssue(issues[j], contexts) # {}
           /\ overlapMatrix[issues[i].id][issues[i].id] = RatOne
           /\ RatEq(overlapMatrix[issues[i].id][issues[j].id], RatZero)

-----------------------------------------------------------------------------
(* Properties of the agent assignment *)

\* The tests of inferAgentType that the issue passes.
SignalsOf(issue) ==
    {k \in DOMAIN AGENT_SIGNALS :
        HasSignal(k, AgentText(issue), AgentLabels(issue))}

\* How many labels and pattern alternatives of test k the issue has.
SignalCount(k, issue) ==
    Cardinality(AgentLabels(issue) \cap AGENT_SIGNALS[k].labels)
        + Cardinality({kw \in AGENT_SIGNALS[k].pattern :
                          includes(AgentText(issue), kw)})

KeywordMatches(k, issue) ==
    IF k = 0 THEN 0
    ELSE Cardinality({kw \in AGENT_SIGNALS[k].pattern :
                         includes(AgentText(issue), kw)})

\* C15: the agent type of an issue is the one with the most keyword matches
\* in the title and the description; among equal scores a specialist is
\* preferred to the general-purpose type.
C15_HighestScoreWins ==
    pc = "done" =>
        \A w \in DOMAIN waves : \A a \in DOMAIN waves[w].agents :
            LET issue == waves[w].issues[a]
                assigned == waves[w].agents[a].agentType
                t == IF assigned = "general-purpose" THEN 0
                     ELSE CHOOSE k \in DOMAIN AGENT_SIGNALS :
                              AGENT_SIGNALS[k].agentType = assigned
            IN \A k \in DOMAIN AGENT_SIGNALS :
                   /\ KeywordMatches(t, issue) >= KeywordMatches(k, issue)
                   /\ (t = 0 => KeywordMatches(k, issue) = 0)

-----------------------------------------------------------------------------
(* Properties of the estimator *)

BreakdownSum(b) ==
    b.codebaseContext + b.implementation + b.tests + b.review + b.documentation

\* C4: estimate's total is 5000 plus the five breakdown components, and no
\* component is negative (line counts are non-negative).
C4_TotalIsBasePlusBreakdown ==
    est # NoResult =>
        /\ est.result.total = 5000 + BreakdownSum(est.result.breakdown)
        /\ est.result.breakdown.codebaseContext >= 0
        /\ est.result.breakdown.implementation >= 0
        /\ est.result.breakdown.tests >= 0
        /\ est.result.breakdown.review >= 0
        /\ est.result.breakdown.documentation >= 0

C4_Witness ==
    /\ est # NoResult
    /\ est.result.breakdown.codebaseContext > 0
    /\ est.result.breakdown.documentation > 0
    /\ Len(est.context.relatedFiles) > 0

\* C5: estimateWave of the one-element list [i], with i's context in the map,
\* equals estimate(i, c): same total, breakdown, confidence and filesAnalyzed.
C5_SingletonWaveEqualsEstimate ==
    (/\ est # NoResult
     /\ waveEst # NoResult
     /\ waveEst.issues = <<est.issue>>
     /\ contexts[est.issue.id] # NoContext)
        => /\ waveEst.result.total = est.result.total
           /\ waveEst.result.breakdown = est.result.breakdown
           /\ waveEst.result.confidence = est.result.confidence
           /\ waveEst.result.filesAnalyzed = est.result.filesAnalyzed

\* C6: the total of estimateWave is 5000 (charged once per wave) plus the sum
\* of its five post-discount breakdown components.
C6_WaveTotalChargesBaseOnce ==
    waveEst # NoResult =>
        waveEst.result.total = 5000 + BreakdownSum(waveEst.result.breakdown)

\* n is Math.round(num / den): the integer nearest to num / den, a half
\* going up.
IsRounded(n, num, den) == 2 * den * n <= 2 * num + den /\ 2 * num + den < 2 * den * (n + 1)

LinesOf(files) == SumSeq([i \in DOMAIN files |-> files[i].lines])

\* C11: with the default configuration estimate computes
\* context = 100 * touched lines + round(1.5 * 100 * related lines),
\* implementation = round(totalLines * 2 * 100 * complexity * priority) with
\* complexity 1.0 / 1.5 / 2.5 and priority 1.5 / 1.2 / 1.0 / 0.8,
\* tests = round(0.6 * implementation),
\* review = round((implementation + tests) * 0.3 * 2),
\* documentation = round(0.1 * implementation); a P1-High issue with 200
\* total lines, medium complexity and no files gives 72000 / 43200 / 69120 /
\* 7200, context 0 and total 196520.
C11_LayeredModel ==
    est # NoResult =>
        LET b == est.result.breakdown
            c == est.context
            complexityTenths == CASE c.avgComplexity = "low" -> 10
                                  [] c.avgComplexity = "medium" -> 15
                                  [] c.avgComplexity = "high" -> 25
            priorityTenths == CASE est.issue.priority = "P0-Critical" -> 15
                                [] est.issue.priority = "P1-High" -> 12
                                [] est.issue.priority = "P2-Medium" -> 10
                                [] est.issue.priority = "P3-Low" -> 8
                                [] OTHER -> 10
        IN /\ IsRounded(b.codebaseContext - 100 * LinesOf(c.filesLikelyTouched),
                        15 * 100 * LinesOf(c.relatedFiles), 10)
           /\ IsRounded(b.implementation,
                        c.totalLines * 2 * complexityTenths * priorityTenths, 1)
           /\ IsRounded(b.tests, 6 * b.implementation, 10)
           /\ IsRounded(b.review, (b.implementation + b.tests) * 3 * 2, 10)
           /\ IsRounded(b.documentation, b.implementation, 10)
           /\ (/\ est.issue.priority = "P1-High"
               /\ c.totalLines = 200
               /\ c.avgComplexity = "medium"
               /\ c.filesLikelyTouched = <<>>
               /\ c.relatedFiles = <<>>)
                  => /\ b.implementation = 72000
                     /\ b.tests = 43200
                     /\ b.review = 69120
                     /\ b.documentation = 7200
                     /\ b.codebaseContext = 0
                     /\ est.result.total = 196520

C11_Witness ==
    /\ est # NoResult
    /\ est.issue.priority = "P1-High"
    /\ est.context = CtxPlain
    /\ est.result.total = 196520

\* The set of paths the context of issue i names.
PathsOfIssue(i) ==
    IF contexts[i.id] = NoContext THEN {}
    ELSE Range(ContextPaths(contexts[i.id]))

ConfidenceScore(issue, context) ==
    (IF Len(context.filesLikelyTouched) >= 3 THEN 2
     ELSE IF Len(context.filesLikelyTouched) >= 1 THEN 1 ELSE 0)
    + (IF Len(issue.description) > 200 THEN 2
       ELSE IF Len(issue.description) > 50 THEN 1 ELSE 0)
    + (IF Len(issue.labels) >= 2 THEN 1 ELSE 0)
    + (IF issue.estimate # NoEstimate THEN 1 ELSE 0)

\* C28: the confidence of estimate is high for a score of 5 or 6, medium for
\* 3 or 4 and low below, the score being +2 / +1 for at least 3 / 1 touched
\* files, +2 / +1 for a description longer than 200 / 50 characters, +1 for
\* two or more labels and +1 for an estimate of any value.
C28_ConfidenceFromScore ==
    est # NoResult =>
        LET score == ConfidenceScore(est.issue, est.context)
        IN /\ score \in 0..6
           /\ est.result.confidence
                  = IF score >= 5 THEN "high"
                    ELSE IF score >= 3 THEN "medium" ELSE "low"

-----------------------------------------------------------------------------
(* Properties of calls in sequence *)

-----------------------------------------------------------------------------
(* Properties of the risk predictor *)

\* C8: the totalRiskScore of every result of analyze is
\* min(100, round(100 * S / 240)), S being the sum over the returned risks of
\* impact weight times likelihood weight; so it lies in 0..100 and is 0 when
\* no risk is returned.
C8_ScoreIsRoundedPercentage ==
    analysis # NoResult =>
        /\ analysis.totalRiskScore
               = Min(100, RoundDiv(100 * totalScoreOf(analysis.risks), 240))
        /\ analysis.totalRiskScore \in 0..100
        /\ Len(analysis.risks) = 0 => analysis.totalRiskScore = 0

\* C9: the score of a list of risks with one more risk appended is at least
\* the score of the list, and no score exceeds 100.
C9_ScoreMonotoneAndBounded ==
    scoreCall # NoResult =>
        LET R == IF scoreCall.added = 0 THEN scoreCall.risks
                 ELSE SubSeq(scoreCall.risks, 1, Len(scoreCall.risks) - 1)
        IN /\ scoreCall.previous = calculateRiskScore(R)
           /\ scoreCall.score = calculateRiskScore(scoreCall.risks)
           /\ scoreCall.score >= scoreCall.previous
           /\ scoreCall.score <= 100

C9_Witness ==
    /\ scoreCall # NoResult
    /\ scoreCall.added > 0
    /\ Len(scoreCall.risks) > 10
    /\ totalScoreOf(scoreCall.risks) > maxScore
    /\ scoreCall.risks[Len(scoreCall.risks)].impact = "critical"
    /\ scoreCall.risks[Len(scoreCall.risks)].likelihood = "high"
    /\ scoreCall.previous = 100
    /\ scoreCall.score = 100

\* The risks of the cross-issue pass that name issue c as depending on p.
ParentRisksOf(c, p) ==
    {r \in DOMAIN risks :
        /\ risks[r].category = "integration"
        /\ risks[r].likelihood = "high"
        /\ risks[r].impact = "high"
        /\ risks[r].issueId = issues[c].id
        /\ "affectedIssues" \in DOMAIN risks[r]
        /\ risks[r].affectedIssues = <<issues[c].identifier, issues[p].identifier>>
        /\ risks[r].suggestedWaveAdjustment
               = "Place " \o issues[p].identifier \o " in earlier wave than "
                     \o issues[c].identifier}

\* C22: once the cross-issue pass of analyze has run, every issue whose
\* parent is another issue of the analysed list has exactly one risk of
\* category integration, likelihood high and impact high, with the child as
\* issueId, the child's and the parent's identifiers as affectedIssues and a
\* suggestedWaveAdjustment that places the parent in an earlier wave.
C22_ParentYieldsIntegrationRisk ==
    pc \in {"integration", "done"} /\ analysed = Len(issues) =>
        \A c, p \in DOMAIN issues :
            (c # p /\ issues[c].parent = issues[p].id)
                => Cardinality(ParentRisksOf(c, p)) = 1

\* The three signals of pattern k on an issue, from the issue and its context:
\* the lowercased title, description and label names; the paths of the
\* touched and related files.
SignalText(issue) ==
    toLowerCase(issue.title \o " " \o issue.description \o " "
                    \o Join([l \in DOMAIN issue.labels |-> issue.labels[l].name], " "))

KeywordSignal(issue, k) ==
    \E w \in DOMAIN RISK_PATTERNS[k].keywords :
        includes(SignalText(issue), RISK_PATTERNS[k].keywords[w])

FileSignal(issue, k) ==
    /\ contexts[issue.id] # NoContext
    /\ \E f \in DOMAIN ContextPaths(contexts[issue.id]) :
           \E fp \in DOMAIN RISK_PATTERNS[k].filePatterns :
               RegExpTest(RISK_PATTERNS[k].filePatterns[fp],
                          ContextPaths(contexts[issue.id])[f])

DescriptionSignal(issue, k) ==
    \E dp \in DOMAIN RISK_PATTERNS[k].descriptionPatterns :
        RegExpTest(RISK_PATTERNS[k].descriptionPatterns[dp], SignalText(issue))

\* The positions in risks of the pattern-derived risks of issue i, category k.
PatternRisksOf(i, k) ==
    {r \in DOMAIN risks :
        /\ risks[r].issueId = issues[i].id
        /\ risks[r].category = RISK_PATTERNS[k].category
        /\ "affectedIssues" \notin DOMAIN risks[r]}

\* C23: for every issue the per-issue loop has taken and every pattern, one
\* risk of the pattern's category is emitted when a keyword, a file path of
\* the issue's context or a description pattern matches, none otherwise; the
\* risks of one issue follow the order of the pattern table.
C23_RiskIffSomeSignal ==
    \A i \in 1..analysed :
        /\ \A k \in DOMAIN RISK_PATTERNS :
               Cardinality(PatternRisksOf(i, k))
                   = IF \/ KeywordSignal(issues[i], k)
                        \/ FileSignal(issues[i], k)
                        \/ DescriptionSignal(issues[i], k)
                     THEN 1 ELSE 0
        /\ \A k1, k2 \in DOMAIN RISK_PATTERNS :
               \A r1 \in PatternRisksOf(i, k1) : \A r2 \in PatternRisksOf(i, k2) :
                   k1 < k2 => r1 < r2

\* How many of the three tests of analyzeIssue are true for pattern k: keyword
\* in the haystack, file pattern on the paths the code reads, description
\* pattern on the haystack.
FiredSignals(issue, k) ==
    LET pattern == RISK_PATTERNS[k]
        content == contentOf(issue)
        files == filePathsOf(contexts[issue.id])
    IN (IF \E w \in DOMAIN pattern.keywords : includes(content, pattern.keywords[w])
        THEN 1 ELSE 0)
       + (IF \E fp \in DOMAIN pattern.filePatterns : \E f \in DOMAIN files :
                 RegExpTest(pattern.filePatterns[fp], files[f])
          THEN 1 ELSE 0)
       + (IF \E dp \in DOMAIN pattern.descriptionPatterns :
                 RegExpTest(pattern.descriptionPatterns[dp], content)
          THEN 1 ELSE 0)

AdjustmentsOf(type, identifier) ==
    {a \in DOMAIN analysis.waveAdjustments :
        /\ analysis.waveAdjustments[a].type = type
        /\ Len(analysis.waveAdjustments[a].affectedIssues) > 0
        /\ analysis.waveAdjustments[a].affectedIssues[1] = identifier}

\* The identifiers of the issues that issue i depends on.
PredecessorsOf(i) ==
    {issues[p].identifier : p \in {p \in DOMAIN issues :
                                      p # i /\ issues[i].parent = issues[p].id}}

HasRiskOf(i, category) ==
    \E r \in DOMAIN analysis.risks :
        /\ analysis.risks[r].issueId = issues[i].id
        /\ analysis.risks[r].category = category

\* C26 (a): an issue with a risk of category integration has an
\* add_dependency adjustment, which names issues the issue depends on and
\* not the issue itself.
C26_IntegrationYieldsAddDependency ==
    \A i \in DOMAIN issues :
        HasRiskOf(i, "integration")
            => \E a \in AdjustmentsOf("add_dependency", issues[i].identifier) :
                   LET named == Tail(analysis.waveAdjustments[a].affectedIssues)
                   IN /\ named # <<>>
                      /\ Range(named) \subseteq PredecessorsOf(i)

\* C26 (b): an issue with a breaking_change risk has a reorder adjustment.
C26_BreakingChangeYieldsReorder ==
    \A i \in DOMAIN issues :
        HasRiskOf(i, "breaking_change")
            => AdjustmentsOf("reorder", issues[i].identifier) # {}

\* C26 (c): an add_buffer adjustment is present exactly when the score
\* exceeds 50.
C26_BufferIffScoreAbove50 ==
    (\E a \in DOMAIN analysis.waveAdjustments :
         analysis.waveAdjustments[a].type = "add_buffer")
        <=> analysis.totalRiskScore > 50

\* C26: in the result of analyze, every issue with a risk of category
\* integration yields an add_dependency adjustment naming the issues it
\* depends on and not itself, every issue with a breaking_change risk yields
\* a reorder adjustment, and add_buffer is present iff totalRiskScore > 50.
C26_WaveAdjustments ==
    (pc = "done" /\ analysis # NoResult) =>
        /\ C26_IntegrationYieldsAddDependency
        /\ C26_BreakingChangeYieldsReorder
        /\ C26_BufferIffScoreAbove50

\* Where a risk comes from: <<0, position of its issue, position of its
\* pattern>> for a pattern-derived risk, <<1, position of its issue, 0>> for
\* a risk of the cross-issue pass.
PatternIndex(category) ==
    CHOOSE k \in DOMAIN RISK_PATTERNS : RISK_PATTERNS[k].category = category

IssueIndex(id) == CHOOSE i \in DOMAIN issues : issues[i].id = id

OriginOf(risk) ==
    IF "affectedIssues" \in DOMAIN risk
    THEN <<1, IssueIndex(risk.issueId), 0>>
    ELSE <<0, IssueIndex(risk.issueId), PatternIndex(risk.category)>>

OriginBefore(x, y) ==
    \/ x[1] < y[1]
    \/ x[1] = y[1] /\ x[2] < y[2]
    \/ x[1] = y[1] /\ x[2] = y[2] /\ x[3] < y[3]

NumberedInOrder(rs) ==
    /\ \A r \in DOMAIN rs : rs[r].id = "RISK-" \o ToString(r)
    /\ \A r1, r2 \in DOMAIN rs : r1 # r2 => rs[r1].id # rs[r2].id
    /\ \A r \in 1..(Len(rs) - 1) : OriginBefore(OriginOf(rs[r]), OriginOf(rs[r + 1]))

\* C27: the k-th risk of the list analyze builds and returns has the id
\* RISK-k, so the ids are pairwise distinct, without gap or repeat; the
\* per-issue risks come first, in issue order and within an issue in pattern
\* order, and the risks of the cross-issue pass follow.
C27_RiskIdsNumberedInOrder ==
    /\ NumberedInOrder(risks)
    /\ analysis # NoResult => NumberedInOrder(analysis.risks)

\* A result with risks of two issues followed by a cross-issue risk.
C27_Witness ==
    /\ pc = "done"
    /\ analysis # NoResult
    /\ Len(analysis.risks) >= 4
    /\ \E r \in 2..(Len(analysis.risks) - 1) :
           /\ OriginOf(analysis.risks[r - 1])[2] = 1
           /\ OriginOf(analysis.risks[r])[2] = 2
           /\ OriginOf(analysis.risks[r])[1] = 0
    /\ OriginOf(analysis.risks[Len(analysis.risks)])[1] = 1

C10_AnalyzeNeverRaises == pc # "threw"

====
